---- MODULE Spec2Model ----
(***************************************************************************)
(* FuelFlow: the persistence gateway (server/storage.ts), the party        *)
(* ledger, the dashboard aggregator and the purchase-order form, as a      *)
(* state machine.  The relational store is a set of rows per table; a      *)
(* db.transaction(cb) runs its statements on a working copy that COMMIT    *)
(* installs and ROLLBACK discards.                                         *)
(***************************************************************************)
EXTENDS Integers, Sequences, FiniteSets, TLC

VARIABLES
    salesTransactions,      \* table sales_transactions (committed rows)
    salesTransactionItems,  \* table sales_transaction_items
    purchaseOrders,         \* table purchase_orders
    purchaseOrderItems,     \* table purchase_order_items
    nextId,                 \* next primary key the store hands out
    tx,                     \* the db.transaction in flight, or its settled promise
    customers,              \* table customers: id -> outstandingAmount
    suppliers,              \* table suppliers: id -> outstandingAmount
    now,                    \* the server clock, in days
    dash,                   \* the getDashboardStats call in flight, or its result
    creditSales,            \* the credit-sale requests the server is handling
    selectedOrder,          \* PurchaseOrders page: the order being edited ({} is null)
    formValues,             \* the react-hook-form values of the dialog
    orderItems,             \* the item rows of the dialog
    open,                   \* whether the dialog is open
    fetches,                \* handleEditOrder calls awaiting their detail response
    mutation,               \* the create or update mutation of the page
    ms,                     \* Date.now() in the browser
    tanks,                  \* table tanks: id -> the tank's row
    stockMovements,         \* table stock_movements, in insertion order
    stations,               \* table stations
    products,               \* table products
    accounts,               \* table accounts
    journalEntries,         \* table journal_entries
    journalLines,           \* table journal_lines
    seed,                   \* the seed script: the statement it is at, and its run
    location,               \* the router's location
    auth,                   \* what useAuth returns: isLoading, isAuthenticated, user
    guard,                  \* AuthGuard: its last render, and whether its effect is due
    activeTab,              \* BulkDataImport: the import type selected
    importFile,             \* the file chosen ({} is null)
    importing,              \* whether an import is under way
    importResult,           \* the ImportResult shown ({} is null)
    upload,                 \* the POST /api/bulk-import request and the server's progress
    users,                  \* table users
    lookup,                 \* the getSalesTransactionWithItems call in flight, or its result
    localStorage,           \* the browser's localStorage: the keys allPosDrafts and posDraft
    salesHistory            \* SalesHistory, per browser tab: whether mounted, and its state

tables == <<salesTransactions, salesTransactionItems, purchaseOrders, purchaseOrderItems>>
parties == <<customers, suppliers>>
\* the state of the PurchaseOrders page in the browser
page == <<selectedOrder, formValues, orderItems, open, fetches, mutation, ms>>
\* what no statement of a header+items transaction touches
stock == <<tanks, stockMovements>>
\* the tables only the seed script writes, and the script itself
books == <<stations, products, accounts, journalEntries, journalLines, seed>>
\* the application shell around the pages
shell == <<location, auth, guard>>
\* the BulkDataImport page and its request
importer == <<activeTab, importFile, importing, importResult, upload>>
\* the users table and the read of a sale, and the drafts of the SalesHistory page
aside == <<users, lookup, localStorage, salesHistory>>
browser == <<shell, importer, aside>>
server == <<parties, now, dash, creditSales, stock, books, browser>>
beyondTx == <<server, page>>
\* what a dashboard query leaves alone, apart from the clock
beyondDash == <<tables, nextId, tx, parties, creditSales, page, stock, books, browser>>
\* what the party ledger leaves alone, apart from the parties
beyondLedger == <<tables, nextId, tx, now, dash, page, stock, books, browser>>
vars == <<salesTransactions, salesTransactionItems, purchaseOrders, purchaseOrderItems,
          nextId, tx, customers, suppliers, now, dash, creditSales,
          selectedOrder, formValues, orderItems, open, fetches, mutation, ms,
          tanks, stockMovements,
          stations, products, accounts, journalEntries, journalLines, seed,
          location, auth, guard,
          activeTab, importFile, importing, importResult, upload,
          users, lookup, localStorage, salesHistory>>

----------------------------------------------------------------------------
(* Bounds of the model *)

MaxId == 2
MaxItems == 2
MaxDay == 2
MaxFetches == 1
MaxLog == 1
MaxRuns == 2
MaxWraps == 1
MaxTicks == 2
MaxRows == 2
MaxTabs == 2

----------------------------------------------------------------------------
(* Values *)

Null == "null"
\* the items argument as it arrives: an array of items, or some other value
Arr(elems) == [isArray |-> TRUE, elems |-> elems]
NotArray == [isArray |-> FALSE, elems |-> <<>>]
Stations == {"s1", "s2"}
Roles == {"admin", "manager"}
Ids == 1..MaxId

\* an item as the caller sends it; t is whatever transactionId the caller filled in
Item(q, u, t) ==
    [transactionId |-> t, productId |-> "p1",
     quantity |-> q, unitPrice |-> u, totalPrice |-> q * u]

RECURSIVE SeqsUpTo(_, _)
SeqsUpTo(S, n) ==
    IF n = 0 THEN {<<>>}
    ELSE LET shorter == SeqsUpTo(S, n - 1)
         IN  shorter \cup {Append(s, x) : s \in {t \in shorter : Len(t) = n - 1}, x \in S}

RECURSIVE SumSeq(_)
SumSeq(s) == IF s = <<>> THEN 0 ELSE Head(s) + SumSeq(Tail(s))

RECURSIVE SumField(_, _)
SumField(rows, fld) ==
    IF rows = {} THEN 0
    ELSE LET r == CHOOSE y \in rows : TRUE
         IN  r[fld] + SumField(rows \ {r}, fld)

----------------------------------------------------------------------------
(* db.transaction(cb): BEGIN, the callback's statements on the working copy,
   then COMMIT; a throw inside the callback is ROLLBACK and the promise rejects. *)

Committed ==
    [sales |-> salesTransactions, items |-> salesTransactionItems,
     orders |-> purchaseOrders, orderItems |-> purchaseOrderItems]

NoWork == [sales |-> {}, items |-> {}, orders |-> {}, orderItems |-> {}]

Idle ==
    [op |-> "none", pc |-> "idle", id |-> nextId, stationId |-> Null, role |-> Null,
     items |-> Arr(<<>>), k |-> 0, w |-> NoWork, error |-> "none"]

Settled(pc, err) == [tx EXCEPT !.pc = pc, !.error = err, !.w = NoWork]

Free == tx.pc \in {"idle", "resolved", "rejected"}

Install(w) ==
    /\ salesTransactions' = w.sales
    /\ salesTransactionItems' = w.items
    /\ purchaseOrders' = w.orders
    /\ purchaseOrderItems' = w.orderItems

\* the promise of a transaction whose first statement threw
Rejected(op, id, stationId, role, items, err) ==
    [Idle EXCEPT !.op = op, !.pc = "rejected", !.id = id, !.stationId = stationId,
                 !.role = role, !.items = items, !.error = err]

Reject(op, id, stationId, role, items, err) ==
    /\ tx' = Rejected(op, id, stationId, role, items, err)
    /\ UNCHANGED <<tables, nextId, beyondTx>>

\* (mutant) the statements ran on this.db, outside the transaction: nothing is undone
TransactionAbortKeepsWrites(err) ==
    /\ tx' = Settled("rejected", err)
    /\ Install(tx.w)
    /\ UNCHANGED <<nextId, beyondTx>>

\* the callback threw: ROLLBACK, the promise rejects with the error
TransactionAbort(err) ==
    /\ tx' = Settled("rejected", err)
    /\ UNCHANGED <<tables, nextId, beyondTx>>

\* the callback returned: COMMIT (which itself may fail, and then nothing is installed)
TransactionCommit ==
    /\ tx.pc = "commit"
    /\ \/ /\ Install(tx.w)
          /\ tx' = Settled("resolved", "none")
          /\ UNCHANGED <<nextId, beyondTx>>
       \/ TransactionAbort("db")

----------------------------------------------------------------------------
(* createSalesTransaction(insertTransaction, items) *)

\* Array.isArray(items)
IsArray(items) == items.isArray

SalesRow(insertTransaction, id) ==
    [id |-> id,
     stationId |-> insertTransaction.stationId,
     customerId |-> insertTransaction.customerId,
     userId |-> insertTransaction.userId,
     paymentMethod |-> insertTransaction.paymentMethod,
     totalAmount |-> insertTransaction.totalAmount,
     transactionDate |-> insertTransaction.transactionDate]

\* (mutant) { transactionId: transaction.id, ...item }: the item's own value wins
SalesItemRowSpreadLast(item, transactionId, line) ==
    [id |-> <<transactionId, line>>,
     transactionId |-> item.transactionId,
     productId |-> item.productId,
     quantity |-> item.quantity,
     unitPrice |-> item.unitPrice,
     totalPrice |-> item.totalPrice]

\* { ...item, transactionId: transaction.id }
SalesItemRow(item, transactionId, line) ==
    [id |-> <<transactionId, line>>,
     transactionId |-> transactionId,
     productId |-> item.productId,
     quantity |-> item.quantity,
     unitPrice |-> item.unitPrice,
     totalPrice |-> item.totalPrice]

\* BEGIN and the header insert
\* const itemsList = Array.isArray(items) ? items : []
ItemsList(items) == IF IsArray(items) THEN items.elems ELSE <<>>

\* BEGIN and the header insert
CreateSalesTransaction(insertTransaction, items) ==
    /\ Free
    /\ nextId <= MaxId
    /\ \/ /\ tx' = [Idle EXCEPT !.op = "createSalesTransaction", !.pc = "items",
                                !.id = nextId, !.items = items,
                                !.w = [Committed EXCEPT !.sales =
                                         @ \cup {SalesRow(insertTransaction, nextId)}]]
          /\ nextId' = nextId + 1
          /\ UNCHANGED <<tables, beyondTx>>
       \/ Reject("createSalesTransaction", nextId, Null, Null, items, "db")

\* one turn of the loop over itemsList; leaving the loop returns the header
InsertSalesTransactionItem ==
    /\ tx.op = "createSalesTransaction"
    /\ tx.pc = "items"
    /\ IF tx.k < Len(ItemsList(tx.items))
       THEN \/ /\ tx' = [tx EXCEPT !.k = @ + 1,
                                   !.w.items = @ \cup
                                      {SalesItemRow(ItemsList(tx.items)[tx.k + 1],
                                                    tx.id, tx.k + 1)}]
               /\ UNCHANGED <<tables, nextId, beyondTx>>
            \/ TransactionAbort("db")
       ELSE /\ tx' = [tx EXCEPT !.pc = "commit"]
            /\ UNCHANGED <<tables, nextId, beyondTx>>

----------------------------------------------------------------------------
(* createPurchaseOrder(insertOrder, items) *)

OrderRow(insertOrder, id) ==
    [id |-> id,
     stationId |-> insertOrder.stationId,
     supplierId |-> insertOrder.supplierId,
     orderNumber |-> insertOrder.orderNumber,
     status |-> insertOrder.status,
     totalAmount |-> insertOrder.totalAmount,
     orderDate |-> insertOrder.orderDate]

\* { ...item, orderId: order.id }
OrderItemRow(item, orderId, line) ==
    [id |-> <<orderId, line>>,
     orderId |-> orderId,
     productId |-> item.productId,
     quantity |-> item.quantity,
     unitPrice |-> item.unitPrice,
     totalPrice |-> item.totalPrice]

\* BEGIN and the header insert
BeginCreatePurchaseOrder(insertOrder, items) ==
    /\ Free
    /\ nextId <= MaxId
    /\ \/ /\ tx' = [Idle EXCEPT !.op = "createPurchaseOrder", !.pc = "items",
                                !.id = nextId, !.items = items,
                                !.w = [Committed EXCEPT !.orders =
                                         @ \cup {OrderRow(insertOrder, nextId)}]]
          /\ nextId' = nextId + 1
       \/ /\ tx' = Rejected("createPurchaseOrder", nextId, Null, Null, items, "db")
          /\ UNCHANGED nextId
    /\ UNCHANGED tables

CreatePurchaseOrder(insertOrder, items) ==
    /\ BeginCreatePurchaseOrder(insertOrder, items)
    /\ UNCHANGED beyondTx

\* for (const item of items): a value that is not iterable throws a TypeError
InsertPurchaseOrderItem ==
    /\ tx.op = "createPurchaseOrder"
    /\ tx.pc = "items"
    /\ IF ~IsArray(tx.items)
       THEN TransactionAbort("TypeError")
       ELSE IF tx.k < Len(tx.items.elems)
       THEN \/ /\ tx' = [tx EXCEPT !.k = @ + 1,
                                   !.w.orderItems = @ \cup
                                      {OrderItemRow(tx.items.elems[tx.k + 1], tx.id, tx.k + 1)}]
               /\ UNCHANGED <<tables, nextId, beyondTx>>
            \/ TransactionAbort("db")
       ELSE /\ tx' = [tx EXCEPT !.pc = "commit"]
            /\ UNCHANGED <<tables, nextId, beyondTx>>

----------------------------------------------------------------------------
(* deleteSalesTransactionSecure(id, stationId, role) *)

\* (mutant) the select filters on the id alone
MayDeleteAnyStation(rows, id, stationId, role) ==
    role = "admin" \/ \E r \in rows : r.id = id

\* role !== 'admin': select ... where id = :id and stationId = :stationId; !row throws
MayDelete(rows, id, stationId, role) ==
    role = "admin" \/ \E r \in rows : r.id = id /\ r.stationId = stationId

DeleteSalesTransactionSecure(id, stationId, role) ==
    /\ Free
    /\ IF MayDelete(salesTransactions, id, stationId, role)
       THEN /\ tx' = [Idle EXCEPT !.op = "deleteSalesTransactionSecure",
                                  !.pc = "deleteItems", !.id = id,
                                  !.stationId = stationId, !.role = role,
                                  !.w = Committed]
            /\ UNCHANGED <<tables, nextId, beyondTx>>
       ELSE Reject("deleteSalesTransactionSecure", id, stationId, role, Arr(<<>>),
                   "Unauthorized to delete this transaction")

\* (mutant) the items delete matches the item's line, not its transactionId
SalesItemsAfterDeleteByLine(rows, id) == {r \in rows : r.id[2] # id}

\* delete from sales_transaction_items where transactionId = :id
SalesItemsAfterDelete(rows, id) == {r \in rows : r.transactionId # id}

\* delete from sales_transactions where id = :id
HeadersAfterDelete(rows, id) == {r \in rows : r.id # id}

DeleteSalesTransactionItems ==
    /\ tx.op = "deleteSalesTransactionSecure"
    /\ tx.pc = "deleteItems"
    /\ \/ /\ tx' = [tx EXCEPT !.pc = "deleteHeader",
                              !.k = Cardinality(tx.w.items) -
                                    Cardinality(SalesItemsAfterDelete(tx.w.items, tx.id)),
                              !.w.items = SalesItemsAfterDelete(@, tx.id)]
          /\ UNCHANGED <<tables, nextId, beyondTx>>
       \/ TransactionAbort("db")

\* (mutant) the header delete puts the sold quantities back into the tanks
DeleteSalesTransactionHeaderRestocking ==
    /\ tx.op = "deleteSalesTransactionSecure"
    /\ tx.pc = "deleteHeader"
    /\ \/ /\ tx' = [tx EXCEPT !.pc = "commit",
                              !.w.sales = {r \in @ : r.id # tx.id}]
          /\ tanks' = [t \in DOMAIN tanks |->
                          [tanks[t] EXCEPT !.currentStock = @ + tx.k]]
          /\ UNCHANGED <<tables, nextId, parties, now, dash, creditSales, page,
                         stockMovements, books, browser>>
       \/ TransactionAbort("db")

DeleteSalesTransactionHeader ==
    /\ tx.op = "deleteSalesTransactionSecure"
    /\ tx.pc = "deleteHeader"
    /\ \/ /\ tx' = [tx EXCEPT !.pc = "commit",
                              !.w.sales = HeadersAfterDelete(@, tx.id)]
          /\ UNCHANGED <<tables, nextId, beyondTx>>
       \/ TransactionAbort("db")

----------------------------------------------------------------------------
(* deletePurchaseOrderSecure(id, stationId, role) *)

DeletePurchaseOrderSecure(id, stationId, role) ==
    /\ Free
    /\ IF MayDelete(purchaseOrders, id, stationId, role)
       THEN /\ tx' = [Idle EXCEPT !.op = "deletePurchaseOrderSecure",
                                  !.pc = "deleteItems", !.id = id,
                                  !.stationId = stationId, !.role = role,
                                  !.w = Committed]
            /\ UNCHANGED <<tables, nextId, beyondTx>>
       ELSE Reject("deletePurchaseOrderSecure", id, stationId, role, Arr(<<>>),
                   "Unauthorized to delete this order")

\* delete from purchase_order_items where orderId = :id
OrderItemsAfterDelete(rows, id) == {r \in rows : r.orderId # id}

DeletePurchaseOrderItems ==
    /\ tx.op = "deletePurchaseOrderSecure"
    /\ tx.pc = "deleteItems"
    /\ \/ /\ tx' = [tx EXCEPT !.pc = "deleteHeader",
                              !.k = Cardinality(tx.w.orderItems) -
                                    Cardinality(OrderItemsAfterDelete(tx.w.orderItems, tx.id)),
                              !.w.orderItems = OrderItemsAfterDelete(@, tx.id)]
          /\ UNCHANGED <<tables, nextId, beyondTx>>
       \/ TransactionAbort("db")

DeletePurchaseOrderHeader ==
    /\ tx.op = "deletePurchaseOrderSecure"
    /\ tx.pc = "deleteHeader"
    /\ \/ /\ tx' = [tx EXCEPT !.pc = "commit",
                              !.w.orders = HeadersAfterDelete(@, tx.id)]
          /\ UNCHANGED <<tables, nextId, beyondTx>>
       \/ TransactionAbort("db")

----------------------------------------------------------------------------
(* The party ledger: getCustomer and updateCustomerBalance, and the credit sale
   that reads the balance, adds the sale's amount and writes the result back *)

Requests == {"r1", "r2"}

NoCreditSales ==
    [r \in Requests |-> [pc |-> "idle", customerId |-> Null, amount |-> 0, balance |-> 0]]

\* a credit sale of amount for customerId arrives
CreditSale(r, customerId, amount) ==
    /\ creditSales[r].pc = "idle"
    /\ creditSales' = [creditSales EXCEPT ![r] =
                          [pc |-> "getCustomer", customerId |-> customerId,
                           amount |-> amount, balance |-> 0]]
    /\ UNCHANGED <<beyondLedger, parties>>

\* select * from customers where id = :id
GetCustomer(r) ==
    /\ creditSales[r].pc = "getCustomer"
    /\ creditSales' = [creditSales EXCEPT ![r].pc = "updateCustomerBalance",
                                          ![r].balance = customers[creditSales[r].customerId]]
    /\ UNCHANGED <<beyondLedger, parties>>

\* the value the caller computes from the balance it read
NewBalance(balance, amount) == balance + amount

\* update customers set outstandingAmount = :amount where id = :id
BalanceAfterUpdate(table, id, amount) == [table EXCEPT ![id] = amount]

UpdateCustomerBalance(r) ==
    /\ creditSales[r].pc = "updateCustomerBalance"
    /\ customers' = BalanceAfterUpdate(customers, creditSales[r].customerId,
                                       NewBalance(creditSales[r].balance, creditSales[r].amount))
    /\ creditSales' = [creditSales EXCEPT ![r].pc = "done"]
    /\ UNCHANGED <<beyondLedger, suppliers>>

----------------------------------------------------------------------------
(* Tanks and the stock-movement log *)

\* the tanks the seed script creates, in thousands of litres
SeedTanks ==
    [t \in {"t1", "t2"} |->
        IF t = "t1"
        THEN [stationId |-> "s1", productId |-> "p1", capacity |-> 4, currentStock |-> 3]
        ELSE [stationId |-> "s1", productId |-> "p2", capacity |-> 6, currentStock |-> 5]]

StockSeeded ==
    /\ tanks = SeedTanks
    /\ stockMovements = <<>>

\* (mutant) the new level is clamped to [0, capacity]
TanksAfterUpdateClamped(table, id, quantity) ==
    IF id \in DOMAIN table
    THEN [table EXCEPT ![id].currentStock =
             IF quantity < 0 THEN 0
             ELSE IF quantity > table[id].capacity THEN table[id].capacity
             ELSE quantity]
    ELSE table

\* update tanks set currentStock = :quantity where id = :id
TanksAfterUpdate(table, id, quantity) ==
    IF id \in DOMAIN table
    THEN [table EXCEPT ![id].currentStock = quantity]
    ELSE table

UpdateTankStock(id, quantity) ==
    /\ tanks' = TanksAfterUpdate(tanks, id, quantity)
    /\ UNCHANGED <<tables, nextId, tx, parties, now, dash, creditSales, page, stockMovements,
                   books, browser>>

\* insert into stock_movements
CreateStockMovement(insertMovement) ==
    /\ Len(stockMovements) < MaxLog
    /\ stockMovements' = Append(stockMovements, insertMovement)
    /\ UNCHANGED <<tables, nextId, tx, parties, now, dash, creditSales, page, tanks, books,
                   browser>>

----------------------------------------------------------------------------
(* getDashboardStats(stationId): nine select statements, awaited one after the
   other on this.db, outside any transaction.  Time is counted in days: a
   timestamp is the day it falls on, so new Date(y, m, d) of a timestamp is
   that same day. *)

MonthLen == 2
SixDays == 6
DaysInWeek == 7
RecentLimit == 5

Products == {"p1", "p2"}

\* new Date(now.getFullYear(), now.getMonth(), 1)
StartOfMonth(t) == t - (t % MonthLen)

\* EXTRACT(DOW FROM transactionDate)
DayOfWeek(t) == t % DaysInWeek

DashIdle ==
    [pc |-> "idle", stationId |-> Null, today |-> 0, startOfMonth |-> 0,
     todaysSales |-> [totalAmount |-> 0, count |-> 0],
     monthlySales |-> [totalAmount |-> 0, count |-> 0],
     outstanding |-> 0, customers |-> 0, suppliers |-> 0, payables |-> 0,
     recentPOs |-> <<>>, productSales |-> {}, weeklySales |-> {}]

\* where stationId = :stationId and transactionDate >= :since
SalesSince(stationId, since) ==
    {r \in salesTransactions : r.stationId = stationId /\ r.transactionDate >= since}

\* { totalAmount: sum(totalAmount), count: count(*) }; a null sum is reported as "0"
SalesAggregate(rows) ==
    [totalAmount |-> SumField(rows, "totalAmount"), count |-> Cardinality(rows)]

GetDashboardStats(stationId) ==
    /\ dash.pc \in {"idle", "returned"}
    /\ dash' = [DashIdle EXCEPT !.pc = "todaysSales", !.stationId = stationId,
                                !.today = now, !.startOfMonth = StartOfMonth(now)]
    /\ UNCHANGED <<beyondDash, now>>

DashTodaysSales ==
    /\ dash.pc = "todaysSales"
    /\ dash' = [dash EXCEPT !.pc = "monthlySales",
                            !.todaysSales = SalesAggregate(SalesSince(dash.stationId, dash.today))]
    /\ UNCHANGED <<beyondDash, now>>

DashMonthlySales ==
    /\ dash.pc = "monthlySales"
    /\ dash' = [dash EXCEPT !.pc = "outstanding",
                            !.monthlySales =
                                SalesAggregate(SalesSince(dash.stationId, dash.startOfMonth))]
    /\ UNCHANGED <<beyondDash, now>>

RECURSIVE SumFcn(_, _)
SumFcn(f, S) ==
    IF S = {} THEN 0
    ELSE LET x == CHOOSE y \in S : TRUE
         IN  f[x] + SumFcn(f, S \ {x})

\* sum(customers.outstandingAmount), over every customer
DashOutstanding ==
    /\ dash.pc = "outstanding"
    /\ dash' = [dash EXCEPT !.pc = "customerCount",
                            !.outstanding = SumFcn(customers, DOMAIN customers)]
    /\ UNCHANGED <<beyondDash, now>>

DashCustomerCount ==
    /\ dash.pc = "customerCount"
    /\ dash' = [dash EXCEPT !.pc = "supplierCount",
                            !.customers = Cardinality(DOMAIN customers)]
    /\ UNCHANGED <<beyondDash, now>>

DashSupplierCount ==
    /\ dash.pc = "supplierCount"
    /\ dash' = [dash EXCEPT !.pc = "payables",
                            !.suppliers = Cardinality(DOMAIN suppliers)]
    /\ UNCHANGED <<beyondDash, now>>

\* sum(purchaseOrders.totalAmount) where status = 'pending', over the rows orders
PayablesOver(orders) ==
    SumField({o \in orders : o.status = "pending"}, "totalAmount")

\* sum(purchaseOrders.totalAmount) where status = 'pending'
DashPayables ==
    /\ dash.pc = "payables"
    /\ dash' = [dash EXCEPT !.pc = "recentPOs",
                            !.payables = PayablesOver(purchaseOrders)]
    /\ UNCHANGED <<beyondDash, now>>

Min(a, b) == IF a < b THEN a ELSE b

Range(q) == {q[i] : i \in DOMAIN q}

\* the answers to: select * from purchase_orders order by orderDate desc limit 5
\* (rows of equal orderDate come in an order the store chooses)
RecentOrders(rows) ==
    LET n == Min(RecentLimit, Cardinality(rows))
    IN  {q \in [1..n -> rows] :
            /\ \A i, j \in 1..n : i < j => (q[i] # q[j] /\ q[i].orderDate >= q[j].orderDate)
            /\ \A r \in rows \ Range(q) : \A i \in 1..n : q[i].orderDate >= r.orderDate}

DashRecentPOs ==
    /\ dash.pc = "recentPOs"
    /\ \E q \in RecentOrders(purchaseOrders) :
          dash' = [dash EXCEPT !.pc = "productSales", !.recentPOs = q]
    /\ UNCHANGED <<beyondDash, now>>

\* items join products join sales where transactionDate >= :today, grouped by
\* product, over the rows items and sales
ProductSalesOver(items, sales, today) ==
    LET joined == {i \in items :
                      /\ i.productId \in Products
                      /\ \E t \in sales :
                            t.id = i.transactionId /\ t.transactionDate >= today}
    IN  {[productId |-> p,
          totalAmount |-> SumField({i \in joined : i.productId = p}, "totalPrice"),
          totalQuantity |-> SumField({i \in joined : i.productId = p}, "quantity")] :
            p \in {i.productId : i \in joined}}

ProductSales(today) == ProductSalesOver(salesTransactionItems, salesTransactions, today)

DashProductSales ==
    /\ dash.pc = "productSales"
    /\ dash' = [dash EXCEPT !.pc = "weeklySales", !.productSales = ProductSales(dash.today)]
    /\ UNCHANGED <<beyondDash, now>>

\* sales where transactionDate >= today - 6 days, grouped by day of the week, over
\* the rows sales
WeeklySalesOver(sales, today) ==
    LET recent == {t \in sales : t.transactionDate >= today - SixDays}
    IN  {[dayOfWeek |-> d,
          totalAmount |-> SumField({t \in recent : DayOfWeek(t.transactionDate) = d},
                                   "totalAmount")] :
            d \in {DayOfWeek(t.transactionDate) : t \in recent}}

WeeklySales(today) == WeeklySalesOver(salesTransactions, today)

\* the last statement, and the object the call returns
DashWeeklySales ==
    /\ dash.pc = "weeklySales"
    /\ dash' = [dash EXCEPT !.pc = "returned", !.weeklySales = WeeklySales(dash.today)]
    /\ UNCHANGED <<beyondDash, now>>

\* a day passes on the server
Tick ==
    /\ now < MaxDay
    /\ now' = now + 1
    /\ UNCHANGED <<beyondDash, dash>>

----------------------------------------------------------------------------
(* The PurchaseOrders page: the dialog's form, its item rows, and the create and
   update mutations.  The dialog is modal: while it is open the page's own
   buttons (New Purchase Order, Edit) cannot be clicked. *)

Slice8 == 100000000

Statuses == {"pending", "approved", "delivered", "cancelled"}
UserStation == "s1"

BlankItem == [productId |-> "", quantity |-> "", unitPrice |-> ""]

\* parseFloat, of the strings a number input can hold here
ParseFloat(str) ==
    CASE str = "0" -> 0 [] str = "1" -> 1 [] str = "2" -> 2 [] str = "3" -> 3

\* Number.prototype.toString
NumToString(n) ==
    CASE n = 0 -> "0" [] n = 1 -> "1" [] n = 2 -> "2" [] n = 3 -> "3"

\* new Date().toISOString().split('T')[0]: the day, as the date inputs hold it
DefaultValues(day) ==
    [supplierId |-> "", orderDate |-> day, notes |-> "", status |-> "pending"]

NoOrderData ==
    [id |-> {}, supplierId |-> "", orderDate |-> 0, notes |-> "", status |-> "pending",
     orderNumber |-> 0, subtotal |-> 0, taxAmount |-> 0, totalAmount |-> 0, items |-> <<>>]

MutationIdle == [pc |-> "idle", kind |-> "none", data |-> NoOrderData]

PageMounted ==
    /\ selectedOrder = {}
    /\ formValues = DefaultValues(now)
    /\ orderItems = <<BlankItem>>
    /\ open = FALSE
    /\ fetches = {}
    /\ mutation = MutationIdle
    /\ ms = 0

\* purchaseOrderSchema, as zodResolver applies it before onSubmit runs
SchemaValid(values) == values.supplierId # "" /\ values.status \in Statuses

\* item.productId && item.quantity && item.unitPrice
ValidItem(item) == item.productId # "" /\ item.quantity # "" /\ item.unitPrice # ""

\* x || "0"
OrZero(str) == IF str = "" THEN "0" ELSE str

\* orderItems.reduce(...) over every row of the dialog
CalculateTotal(rows) ==
    SumSeq([i \in DOMAIN rows |->
              ParseFloat(OrZero(rows[i].quantity)) * ParseFloat(OrZero(rows[i].unitPrice))])

\* `PO${Date.now().toString().slice(-8)}`: the digits after the PO
OrderNumber(t) == t % Slice8

PayloadItem(item) ==
    [transactionId |-> 0, productId |-> item.productId,
     quantity |-> ParseFloat(item.quantity),
     unitPrice |-> ParseFloat(item.unitPrice),
     totalPrice |-> ParseFloat(item.quantity) * ParseFloat(item.unitPrice)]

\* (mutant) an edit sends the status the order had when it was selected
OrderDataKeepsStatus ==
    LET validItems == SelectSeq(orderItems, ValidItem)
        subtotal == CalculateTotal(orderItems)
    IN  [id |-> {o.id : o \in selectedOrder},
         supplierId |-> formValues.supplierId,
         orderDate |-> formValues.orderDate,
         notes |-> formValues.notes,
         status |-> IF selectedOrder # {}
                    THEN (CHOOSE o \in selectedOrder : TRUE).status
                    ELSE formValues.status,
         orderNumber |-> IF selectedOrder # {}
                         THEN (CHOOSE o \in selectedOrder : TRUE).orderNumber
                         ELSE OrderNumber(ms),
         subtotal |-> subtotal,
         taxAmount |-> 0,
         totalAmount |-> subtotal + 0,
         items |-> [k \in DOMAIN validItems |-> PayloadItem(validItems[k])]]

OrderData ==
    LET validItems == SelectSeq(orderItems, ValidItem)
        subtotal == CalculateTotal(orderItems)
    IN  [id |-> {o.id : o \in selectedOrder},
         supplierId |-> formValues.supplierId,
         orderDate |-> formValues.orderDate,
         notes |-> formValues.notes,
         status |-> formValues.status,
         orderNumber |-> IF selectedOrder # {}
                         THEN (CHOOSE o \in selectedOrder : TRUE).orderNumber
                         ELSE OrderNumber(ms),
         subtotal |-> subtotal,
         taxAmount |-> 0,
         totalAmount |-> subtotal + 0,
         items |-> [k \in DOMAIN validItems |-> PayloadItem(validItems[k])]]

\* form.handleSubmit(onSubmit); the submit button is disabled while a mutation is pending
OnSubmit ==
    /\ open
    /\ mutation.pc = "idle"
    /\ SchemaValid(formValues)
    /\ IF Len(SelectSeq(orderItems, ValidItem)) = 0
       THEN UNCHANGED mutation
       ELSE mutation' = [pc |-> "pending",
                         kind |-> IF selectedOrder # {} THEN "update" ELSE "create",
                         data |-> OrderData]
    /\ UNCHANGED <<tables, nextId, tx, server,
                   selectedOrder, formValues, orderItems, open, fetches, ms>>

\* the header the POST and PUT handlers hand to the gateway: the payload, with
\* stationId: user.stationId, without its items
InsertOrderOf(data) ==
    [stationId |-> UserStation, supplierId |-> data.supplierId,
     orderNumber |-> data.orderNumber, status |-> data.status,
     totalAmount |-> data.totalAmount, orderDate |-> data.orderDate]

\* the clock is followed for MaxTicks milliseconds after each multiple of 10^8
Followed(t) == t <= MaxWraps * Slice8 + MaxTicks /\ t % Slice8 <= MaxTicks

\* POST /api/purchase-orders reaches createPurchaseOrder, d milliseconds after the
\* submit
PostPurchaseOrderTaking(d) ==
    /\ mutation.pc = "pending"
    /\ mutation.kind = "create"
    /\ BeginCreatePurchaseOrder(InsertOrderOf(mutation.data), Arr(mutation.data.items))
    /\ mutation' = [mutation EXCEPT !.pc = "sent"]
    /\ Followed(ms + d)
    /\ ms' = ms + d
    /\ UNCHANGED <<server, selectedOrder, formValues, orderItems, open, fetches>>

PostPurchaseOrder == PostPurchaseOrderTaking(0)

\* time passes in the browser
ClockAdvances(d) ==
    /\ Followed(ms + d)
    /\ ms' = ms + d
    /\ UNCHANGED <<tables, nextId, tx, server,
                   selectedOrder, formValues, orderItems, open, fetches, mutation>>

\* createPurchaseOrderMutation: the response is read, then onSuccess or onError
CreateMutationSettled ==
    /\ mutation.pc = "sent"
    /\ mutation.kind = "create"
    /\ tx.pc \in {"resolved", "rejected"}
    /\ tx' = Idle
    /\ mutation' = MutationIdle
    /\ IF tx.pc = "resolved"
       THEN /\ open' = FALSE
            /\ formValues' = DefaultValues(now)
            /\ orderItems' = <<BlankItem>>
       ELSE UNCHANGED <<open, formValues, orderItems>>
    /\ UNCHANGED <<tables, nextId, server, selectedOrder, fetches, ms>>

\* PUT /api/purchase-orders/:id: the header fields and the items of the order are
\* replaced by the payload's; an id that no order has, or a failing statement, is an error
PutPurchaseOrder ==
    /\ mutation.pc = "pending"
    /\ mutation.kind = "update"
    /\ Free
    /\ \/ \E o \in purchaseOrders :
             /\ o.id \in mutation.data.id
             /\ purchaseOrders' =
                   (purchaseOrders \ {o}) \cup {OrderRow(InsertOrderOf(mutation.data), o.id)}
             /\ purchaseOrderItems' =
                   {i \in purchaseOrderItems : i.orderId # o.id}
                   \cup {OrderItemRow(mutation.data.items[k], o.id, k) :
                            k \in DOMAIN mutation.data.items}
             /\ mutation' = [mutation EXCEPT !.pc = "success"]
       \/ /\ mutation' = [mutation EXCEPT !.pc = "error"]
          /\ UNCHANGED <<purchaseOrders, purchaseOrderItems>>
    /\ UNCHANGED <<salesTransactions, salesTransactionItems, nextId, tx, server,
                   selectedOrder, formValues, orderItems, open, fetches, ms>>

\* updatePurchaseOrderMutation: onSuccess or onError
UpdateMutationSettled ==
    /\ mutation.pc \in {"success", "error"}
    /\ mutation' = MutationIdle
    /\ open' = IF mutation.pc = "success" THEN FALSE ELSE open
    /\ UNCHANGED <<tables, nextId, tx, server,
                   selectedOrder, formValues, orderItems, fetches, ms>>

HandleNewPurchaseOrder ==
    /\ ~open
    /\ open' = TRUE
    /\ selectedOrder' = {}
    /\ orderItems' = <<BlankItem>>
    /\ formValues' = DefaultValues(now)
    /\ UNCHANGED <<tables, nextId, tx, server, fetches, mutation, ms>>

\* the fields of a listed order that the page reads
Listed(o) ==
    [id |-> o.id, orderNumber |-> o.orderNumber, supplierId |-> o.supplierId,
     orderDate |-> o.orderDate, status |-> o.status]

\* handleEditOrder up to its await
HandleEditOrder(order) ==
    /\ ~open
    /\ Cardinality(fetches \cup {order}) <= MaxFetches
    /\ selectedOrder' = {order}
    /\ fetches' = fetches \cup {order}
    /\ UNCHANGED <<tables, nextId, tx, server, formValues, orderItems, open, mutation, ms>>

\* the rows getPurchaseOrderItems(id) returns, by line
ItemsOfOrder(id) ==
    LET rows == {i \in purchaseOrderItems : i.orderId = id}
    IN  [k \in 1..Cardinality(rows) |-> CHOOSE i \in rows : i.id = <<id, k>>]

FormItem(item) ==
    [productId |-> item.productId,
     quantity |-> NumToString(item.quantity),
     unitPrice |-> NumToString(item.unitPrice)]

\* handleEditOrder after its await: the detail response, or the failure to get one
EditOrderLoaded(order) ==
    /\ order \in fetches
    /\ fetches' = fetches \ {order}
    /\ \E ok \in BOOLEAN :
          orderItems' =
             IF /\ ok
                /\ \E o \in purchaseOrders : o.id = order.id
                /\ Len(ItemsOfOrder(order.id)) > 0
             THEN [k \in DOMAIN ItemsOfOrder(order.id) |-> FormItem(ItemsOfOrder(order.id)[k])]
             ELSE <<BlankItem>>
    /\ formValues' = [supplierId |-> order.supplierId, orderDate |-> order.orderDate,
                      notes |-> "", status |-> order.status]
    /\ open' = TRUE
    /\ UNCHANGED <<tables, nextId, tx, server, selectedOrder, mutation, ms>>

\* Cancel, or the dialog's onOpenChange(false)
CloseDialog ==
    /\ open
    /\ open' = FALSE
    /\ UNCHANGED <<tables, nextId, tx, server,
                   selectedOrder, formValues, orderItems, fetches, mutation, ms>>

\* the Status select's onValueChange
SelectStatus(status) ==
    /\ open
    /\ formValues' = [formValues EXCEPT !.status = status]
    /\ UNCHANGED <<tables, nextId, tx, server,
                   selectedOrder, orderItems, open, fetches, mutation, ms>>

\* the Supplier select's onValueChange
SelectSupplier(supplierId) ==
    /\ open
    /\ formValues' = [formValues EXCEPT !.supplierId = supplierId]
    /\ UNCHANGED <<tables, nextId, tx, server,
                   selectedOrder, orderItems, open, fetches, mutation, ms>>

AddOrderItem ==
    /\ open
    /\ Len(orderItems) < MaxItems
    /\ orderItems' = Append(orderItems, BlankItem)
    /\ UNCHANGED <<tables, nextId, tx, server,
                   selectedOrder, formValues, open, fetches, mutation, ms>>

RemoveOrderItem(index) ==
    /\ open
    /\ Len(orderItems) > 1
    /\ orderItems' = [k \in 1..(Len(orderItems) - 1) |->
                         IF k < index THEN orderItems[k] ELSE orderItems[k + 1]]
    /\ UNCHANGED <<tables, nextId, tx, server,
                   selectedOrder, formValues, open, fetches, mutation, ms>>

UpdateOrderItem(index, field, value) ==
    /\ open
    /\ index \in DOMAIN orderItems
    /\ orderItems' = [orderItems EXCEPT ![index][field] = value]
    /\ UNCHANGED <<tables, nextId, tx, server,
                   selectedOrder, formValues, open, fetches, mutation, ms>>

----------------------------------------------------------------------------
(* AuthGuard: the role table, the effect that sends a user away from a location
   the table does not give the role, and what the guard renders.  A path is the
   sequence of the pieces it is written with, "/pos/1" being <<"/", "pos", "/1">>
   and "/postal" <<"/", "pos", "tal">>, so that location.startsWith(route) is the
   prefix test on the pieces. *)

Root == <<"/">>
Route(name) == <<"/", name>>
Star == <<"*">>

ManagerRoutes ==
    {Root} \cup {Route(name) : name \in
        {"profile", "pos", "sales-history", "customers", "stock", "purchase-orders",
         "accounts-receivable", "accounts-payable", "cash-reconciliation", "expenses",
         "suppliers", "pricing", "financial-reports", "tanks", "pumps", "daily-reports",
         "aging-reports", "general-ledger", "customer-activity", "settings"}}

CashierRoutes ==
    {Root} \cup {Route(name) : name \in {"profile", "pos", "sales-history", "customers"}}

RoleAccess == [admin |-> {Star}, manager |-> ManagerRoutes, cashier |-> CashierRoutes]

\* roleAccess[user.role] || []
AllowedRoutes(role) == IF role \in DOMAIN RoleAccess THEN RoleAccess[role] ELSE {}

\* path.startsWith(route)
StartsWith(path, route) ==
    /\ Len(route) <= Len(path)
    /\ SubSeq(path, 1, Len(route)) = route

IsAllowedByAnyPrefix(role, path) ==
    \/ Star \in AllowedRoutes(role)
    \/ path \in AllowedRoutes(role)
    \/ \E route \in AllowedRoutes(role) : StartsWith(path, route)

IsAllowed(role, path) ==
    \/ Star \in AllowedRoutes(role)
    \/ path \in AllowedRoutes(role)
    \/ \E route \in AllowedRoutes(role) : StartsWith(path, route) /\ route # Root

\* the locations the guard sends nobody away from
Exempt == {Root, Route("profile"), Route("login"), Route("signup")}

IsPublicRoute(path) ==
    path \in {Route("login"), Route("signup"), Route("approval-pending")}

\* the user object of useAuth ({} is null)
TheUser(a) == CHOOSE u \in a.user : TRUE

\* !isLoading && isAuthenticated && user
EffectApplies(a) == ~a.isLoading /\ a.isAuthenticated /\ a.user # {}

\* whether the effect, run with the values of a render, calls setLocation("/")
Redirects(a, path) ==
    /\ EffectApplies(a)
    /\ ~IsAllowed(TheUser(a).role, path)
    /\ path \notin Exempt

\* what AuthGuard returns
View(a, path) ==
    IF a.isLoading THEN "loading"
    ELSE IF a.user = {} /\ ~IsPublicRoute(path) THEN "login"
    ELSE IF /\ a.user # {}
            /\ ~TheUser(a).isActive
            /\ TheUser(a).role # "admin"
            /\ ~IsPublicRoute(path) THEN "approvalPending"
    ELSE IF IsPublicRoute(path) THEN "children"
    ELSE "layout"

AuthLoading == [isLoading |-> TRUE, isAuthenticated |-> FALSE, user |-> {}]

Unrendered == [view |-> "none", auth |-> AuthLoading, location |-> Root, effect |-> FALSE]

\* React renders the guard when it mounts and when a value it reads has changed;
\* the effect's dependencies are among them, so the effect is due after it
AuthGuardRender ==
    /\ ~guard.effect
    /\ guard.view = "none" \/ guard.auth # auth \/ guard.location # location
    /\ guard' = [view |-> View(auth, location), auth |-> auth, location |-> location,
                 effect |-> TRUE]
    /\ UNCHANGED <<tables, nextId, tx, parties, now, dash, creditSales, page, stock, books,
                   location, auth, importer, aside>>

\* (mutant) the effect sends the user to the login page
RedirectTargetLogin == <<"/", "login">>

\* setLocation("/")
RedirectTarget == <<"/">>

\* the effect, flushed before another event is handled
AuthGuardEffect ==
    /\ guard.effect
    /\ guard' = [guard EXCEPT !.effect = FALSE]
    /\ location' = IF Redirects(guard.auth, guard.location) THEN RedirectTarget ELSE location
    /\ UNCHANGED <<tables, nextId, tx, parties, now, dash, creditSales, page, stock, books,
                   auth, importer, aside>>

\* a link, the address bar or the back button
Navigate(path) ==
    /\ ~guard.effect
    /\ path # location
    /\ location' = path
    /\ UNCHANGED <<tables, nextId, tx, parties, now, dash, creditSales, page, stock, books,
                   auth, guard, importer, aside>>

\* useAuth settles, the user logs in or out, or an admin activates the account
AuthChanges(a) ==
    /\ ~guard.effect
    /\ a # auth
    /\ auth' = a
    /\ UNCHANGED <<tables, nextId, tx, parties, now, dash, creditSales, page, stock, books,
                   location, guard, importer, aside>>

----------------------------------------------------------------------------
(* getSalesTransactionWithItems(id): the header left-joined with its customer,
   station and user, then the items inner-joined with their products *)

SeedUsers == {[id |-> "u1"]}

LookupIdle == [pc |-> "idle", id |-> 0, header |-> {}, result |-> {}]

\* the first row of the header select: the sale, and whether each left join found a row
JoinedHeader(row) ==
    [sales_transactions |-> row,
     customers |-> row.customerId \in DOMAIN customers,
     stations |-> \E st \in stations : st.id = row.stationId,
     users |-> \E u \in users : u.id = row.userId]

\* !(!transaction.customers || !transaction.stations || !transaction.users)
Readable(joined) == joined.customers /\ joined.stations /\ joined.users

\* the header select, and the return of undefined
GetSalesTransactionWithItems(id) ==
    /\ lookup.pc \in {"idle", "returned"}
    /\ LET found == {JoinedHeader(r) : r \in {x \in salesTransactions : x.id = id}}
       IN  IF \E joined \in found : Readable(joined)
           THEN lookup' = [pc |-> "items", id |-> id, result |-> {},
                           header |-> {joined.sales_transactions : joined \in found}]
           ELSE lookup' = [pc |-> "returned", id |-> id, header |-> {}, result |-> {}]
    /\ UNCHANGED <<tables, nextId, tx, parties, now, dash, creditSales, page, stock, books,
                   shell, importer, users, localStorage, salesHistory>>

\* the items select, and the return of the sale with its items
LookupItems ==
    /\ lookup.pc = "items"
    /\ lookup' = [lookup EXCEPT
          !.pc = "returned",
          !.result = {[transaction |-> h,
                       items |-> {i \in salesTransactionItems :
                                    /\ i.transactionId = lookup.id
                                    /\ \E pr \in products : pr.id = i.productId}] :
                      h \in lookup.header}]
    /\ UNCHANGED <<tables, nextId, tx, parties, now, dash, creditSales, page, stock, books,
                   shell, importer, users, localStorage, salesHistory>>

----------------------------------------------------------------------------
(* SalesHistory and the drafts in localStorage.  localStorage is shared by the
   tabs of the browser; each tab that shows the page holds its own draftSales.  A
   key holds {} when absent and {value} when set; a draft's id is the number
   after "draft-". *)

Tabs == 1..MaxTabs

NoStorage == [allPosDrafts |-> {}, posDraft |-> {}]

Unmounted ==
    [mounted |-> FALSE, draftSales |-> <<>>, draftToDelete |-> {},
     draftDeleteConfirmOpen |-> FALSE]

\* the DraftSale built from a legacy draft: draft.timestamp || Date.now()
MigratedDraft(draft, clock) ==
    LET t == IF draft.timestamp # 0 THEN draft.timestamp ELSE clock
    IN  [id |-> t, timestamp |-> t]

\* what loadDrafts hands to setDraftSales
LoadedDrafts(storage, clock) ==
    IF storage.allPosDrafts # {}
    THEN CHOOSE list \in storage.allPosDrafts : TRUE
    ELSE IF storage.posDraft # {}
         THEN <<MigratedDraft(CHOOSE d \in storage.posDraft : TRUE, clock)>>
         ELSE <<>>

\* the page mounts and its effect runs loadDrafts
LoadDrafts(tab) ==
    /\ ~salesHistory[tab].mounted
    /\ salesHistory' = [salesHistory EXCEPT ![tab] =
          [Unmounted EXCEPT !.mounted = TRUE,
                            !.draftSales = LoadedDrafts(localStorage, ms)]]
    /\ localStorage' =
          IF localStorage.allPosDrafts = {} /\ localStorage.posDraft # {}
          THEN [localStorage EXCEPT !.allPosDrafts = {LoadedDrafts(localStorage, ms)}]
          ELSE localStorage
    /\ UNCHANGED <<tables, nextId, tx, parties, now, dash, creditSales, page, stock, books,
                   shell, importer, users, lookup>>

\* the user leaves the page, or closes the tab
LeaveSalesHistory(tab) ==
    /\ salesHistory[tab].mounted
    /\ salesHistory' = [salesHistory EXCEPT ![tab] = Unmounted]
    /\ UNCHANGED <<tables, nextId, tx, parties, now, dash, creditSales, page, stock, books,
                   shell, importer, users, lookup, localStorage>>

HandleDeleteDraft(tab, draftId) ==
    /\ salesHistory[tab].mounted
    /\ ~salesHistory[tab].draftDeleteConfirmOpen
    /\ \E k \in DOMAIN salesHistory[tab].draftSales :
          salesHistory[tab].draftSales[k].id = draftId
    /\ salesHistory' = [salesHistory EXCEPT ![tab].draftToDelete = {draftId},
                                            ![tab].draftDeleteConfirmOpen = TRUE]
    /\ UNCHANGED <<tables, nextId, tx, parties, now, dash, creditSales, page, stock, books,
                   shell, importer, users, lookup, localStorage>>

\* the dialog's onClose
CloseDraftDelete(tab) ==
    /\ salesHistory[tab].draftDeleteConfirmOpen
    /\ salesHistory' = [salesHistory EXCEPT ![tab].draftDeleteConfirmOpen = FALSE]
    /\ UNCHANGED <<tables, nextId, tx, parties, now, dash, creditSales, page, stock, books,
                   shell, importer, users, lookup, localStorage>>

\* draftSales.filter(draft => draft.id !== draftToDelete)
WithoutDraft(list, draftId) == SelectSeq(list, LAMBDA d : d.id # draftId)

\* setItem("allPosDrafts", ...) or the two removeItem calls
StorageAfterDelete(storage, updatedDrafts) ==
    IF Len(updatedDrafts) > 0
    THEN [storage EXCEPT !.allPosDrafts = {updatedDrafts}]
    ELSE NoStorage

\* the dialog's onConfirm
ConfirmDeleteDraft(tab) ==
    /\ salesHistory[tab].draftDeleteConfirmOpen
    /\ IF salesHistory[tab].draftToDelete # {}
       THEN LET updatedDrafts ==
                    WithoutDraft(salesHistory[tab].draftSales,
                                 CHOOSE d \in salesHistory[tab].draftToDelete : TRUE)
            IN  /\ salesHistory' = [salesHistory EXCEPT
                       ![tab].draftSales = updatedDrafts,
                       ![tab].draftDeleteConfirmOpen = FALSE,
                       ![tab].draftToDelete = {}]
                /\ localStorage' = StorageAfterDelete(localStorage, updatedDrafts)
       ELSE UNCHANGED <<salesHistory, localStorage>>
    /\ UNCHANGED <<tables, nextId, tx, parties, now, dash, creditSales, page, stock, books,
                   shell, importer, users, lookup>>

AsideMounted ==
    /\ users = SeedUsers
    /\ lookup = LookupIdle
    /\ localStorage = NoStorage
    /\ salesHistory = [tab \in Tabs |-> Unmounted]

----------------------------------------------------------------------------
(* The BulkDataImport page, and POST /api/bulk-import as the specification
   describes it: the rows of the file are imported one by one, a row of a type
   with a Product Name column fails when the catalog has no such product, and
   the response counts the rows imported and the rows failed.  A file is the
   sequence of its data rows; of the tables the import writes, sales_transactions
   and sales_transaction_items are in the model. *)

ImportTypes == {"sales", "expenses", "payments", "purchases"}

\* the types whose template has a Product Name column
WithProduct == {"sales", "purchases"}

CsvRow(productName) == [productName |-> productName]

NoUpload ==
    [pc |-> "none", file |-> <<>>, type |-> "sales", stationId |-> "",
     k |-> 0, success |-> 0, failed |-> 0, errors |-> <<>>]

ImportMounted ==
    /\ activeTab = "sales"
    /\ importFile = {}
    /\ importing = FALSE
    /\ importResult = {}
    /\ upload = NoUpload

\* <Tabs onValueChange={setActiveTab}>
SetActiveTab(tab) ==
    /\ tab # activeTab
    /\ activeTab' = tab
    /\ UNCHANGED <<tables, nextId, tx, parties, now, dash, creditSales, page, stock, books,
                   shell, aside, importFile, importing, importResult, upload>>

\* the file input is disabled while importing
HandleFileChange(file) ==
    /\ ~importing
    /\ importFile' = {file}
    /\ importResult' = {}
    /\ UNCHANGED <<tables, nextId, tx, parties, now, dash, creditSales, page, stock, books,
                   shell, aside, activeTab, importing, upload>>

\* (mutant) the request names the expenses type whatever tab is selected
ImportFormDataAsExpenses(file, tab, stationId) ==
    [file |-> file, type |-> "expenses", stationId |-> stationId]

\* the three formData.append calls
ImportFormData(file, tab, stationId) ==
    [file |-> file, type |-> tab, stationId |-> stationId]

\* handleImport up to its await: without a file, a toast and nothing else; the
\* button is disabled while importing
HandleImport ==
    IF importFile = {}
    THEN UNCHANGED vars
    ELSE /\ ~importing
         /\ Free
         /\ LET formData ==
                    ImportFormData(CHOOSE f \in importFile : TRUE, activeTab, UserStation)
            IN  /\ nextId + Len(formData.file) <= MaxId + 1
                /\ upload' = [NoUpload EXCEPT !.pc = "rows", !.file = formData.file,
                                              !.type = formData.type,
                                              !.stationId = formData.stationId]
         /\ importing' = TRUE
         /\ UNCHANGED <<tables, nextId, tx, parties, now, dash, creditSales, page, stock,
                        books, shell, aside, activeTab, importFile, importResult>>

InCatalog(productName) == \E p \in products : p.id = productName

RowFails(type, row) == type \in WithProduct /\ ~InCatalog(row.productName)

\* the server imports the next row of the file
BulkImportRow ==
    /\ upload.pc = "rows"
    /\ upload.k < Len(upload.file)
    /\ LET row == upload.file[upload.k + 1]
       IN  IF RowFails(upload.type, row)
           THEN /\ upload' = [upload EXCEPT !.k = @ + 1, !.failed = @ + 1,
                                            !.errors = Append(@, upload.k + 1)]
                /\ UNCHANGED <<tables, nextId>>
           ELSE /\ upload' = [upload EXCEPT !.k = @ + 1, !.success = @ + 1]
                /\ IF upload.type = "sales"
                   THEN /\ salesTransactions' = salesTransactions \cup
                              {SalesRow([stationId |-> upload.stationId,
                                         customerId |-> Null, userId |-> "u1",
                                         paymentMethod |-> "cash",
                                         totalAmount |-> 1, transactionDate |-> now],
                                        nextId)}
                        /\ salesTransactionItems' = salesTransactionItems \cup
                              {SalesItemRow([productId |-> row.productName, quantity |-> 1,
                                             unitPrice |-> 1, totalPrice |-> 1],
                                            nextId, 1)}
                        /\ nextId' = nextId + 1
                        /\ UNCHANGED <<purchaseOrders, purchaseOrderItems>>
                   ELSE UNCHANGED <<tables, nextId>>
    /\ UNCHANGED <<tx, parties, now, dash, creditSales, page, stock, books,
                   shell, aside, activeTab, importFile, importing, importResult>>

\* the server answers with the counts
BulkImportResponds ==
    /\ upload.pc = "rows"
    /\ upload.k = Len(upload.file)
    /\ upload' = [upload EXCEPT !.pc = "responded"]
    /\ UNCHANGED <<tables, nextId, tx, parties, now, dash, creditSales, page, stock, books,
                   shell, aside, activeTab, importFile, importing, importResult>>

\* await response.json(), setImportResult(result), and the finally block
ImportSettled ==
    /\ upload.pc = "responded"
    /\ importResult' = {[success |-> upload.success, failed |-> upload.failed,
                         errors |-> upload.errors]}
    /\ importing' = FALSE
    /\ upload' = [upload EXCEPT !.pc = "done"]
    /\ UNCHANGED <<tables, nextId, tx, parties, now, dash, creditSales, page, stock, books,
                   shell, aside, activeTab, importFile>>

\* (mutant) the flag is reset after the try block, not in a finally block
ImportThrowsLeavingFlag ==
    /\ upload.pc \in {"rows", "responded"}
    /\ upload' = [upload EXCEPT !.pc = "failed"]
    /\ UNCHANGED <<tables, nextId, tx, parties, now, dash, creditSales, page, stock, books,
                   shell, aside, activeTab, importFile, importing, importResult>>

\* fetch or response.json() throws: the catch and the finally block
ImportThrows ==
    /\ upload.pc \in {"rows", "responded"}
    /\ importing' = FALSE
    /\ upload' = [upload EXCEPT !.pc = "failed"]
    /\ UNCHANGED <<tables, nextId, tx, parties, now, dash, creditSales, page, stock, books,
                   shell, aside, activeTab, importFile, importResult>>

\* the browser when the application has loaded
BrowserMounted ==
    /\ location = Root
    /\ auth = AuthLoading
    /\ guard = Unrendered
    /\ ImportMounted
    /\ AsideMounted

----------------------------------------------------------------------------
(* The gateway under sequences of calls *)

ItemLists == {Arr(s) : s \in SeqsUpTo({Item(1, 1, 1)}, MaxItems)}

SalesInputs ==
    [stationId : Stations, customerId : {Null}, userId : {"u1"}, paymentMethod : {"cash"},
     totalAmount : {1}, transactionDate : {0}]

OrderInputs ==
    [stationId : Stations, supplierId : {"sup1"}, orderNumber : {1},
     status : {"pending"}, totalAmount : {1}, orderDate : {0}]

\* the parties the seed script creates
SeedCustomers == [c \in {"c1", "c2"} |-> IF c = "c1" THEN 0 ELSE 5]
SeedSuppliers == [c \in {"sup1"} |-> 0]

----------------------------------------------------------------------------
(* The seed script: ten insert statements awaited one after the other on db,
   outside any transaction; an insert that throws ends the script in
   seed().catch.  The ids the store generates are those of the first run, or,
   in a later run, those with the run appended. *)

RowId(id, run) == IF run = 1 THEN id ELSE id \o "." \o ToString(run)

SeedIdle == [pc |-> "station", run |-> 1]

\* the database before any seed
Unseeded ==
    /\ stations = {}
    /\ products = {}
    /\ accounts = {}
    /\ journalEntries = {}
    /\ journalLines = {}
    /\ tanks = <<>>
    /\ customers = <<>>
    /\ suppliers = <<>>
    /\ stockMovements = <<>>
    /\ seed = SeedIdle

SeedStation(run) == [id |-> RowId("s1", run), name |-> "Main Street Fuel"]
SeedProduct(id, run) == [id |-> RowId(id, run), category |-> "fuel"]
SeedAccount(id, run, normalBalance) ==
    [id |-> RowId(id, run), stationId |-> RowId("s1", run), normalBalance |-> normalBalance]

SeedEntry(run, entryDate) ==
    [id |-> RowId("je1", run), stationId |-> RowId("s1", run), entryDate |-> entryDate,
     totalDebit |-> 1, totalCredit |-> 1]

SeedLines(run) ==
    {[id |-> RowId("jl1", run), entryId |-> RowId("je1", run),
      accountId |-> RowId("a1", run), debit |-> 1, credit |-> 0],
     [id |-> RowId("jl2", run), entryId |-> RowId("je1", run),
      accountId |-> RowId("a2", run), debit |-> 0, credit |-> 1]}

TanksOfRun(run) ==
    (RowId("t1", run) :> [SeedTanks["t1"] EXCEPT !.stationId = RowId("s1", run),
                                                !.productId = RowId("p1", run)])
    @@ (RowId("t2", run) :> [SeedTanks["t2"] EXCEPT !.stationId = RowId("s1", run),
                                                   !.productId = RowId("p2", run)])

CustomersOfRun(run) ==
    (RowId("c1", run) :> SeedCustomers["c1"]) @@ (RowId("c2", run) :> SeedCustomers["c2"])

SuppliersOfRun(run) == RowId("sup1", run) :> SeedSuppliers["sup1"]

\* the database after one complete run of the script
BooksSeeded ==
    /\ stations = {SeedStation(1)}
    /\ products = {SeedProduct("p1", 1), SeedProduct("p2", 1)}
    /\ accounts = {SeedAccount("a1", 1, "debit"), SeedAccount("a2", 1, "credit")}
    /\ journalEntries = {SeedEntry(1, 0)}
    /\ journalLines = SeedLines(1)
    /\ seed = [pc |-> "done", run |-> 1]

\* what the script leaves alone whatever statement it is at
beyondSeed ==
    <<tables, nextId, tx, now, dash, creditSales, page, stockMovements, browser>>

\* seed().catch: console.error and process.exit(1)
SeedFails ==
    /\ seed' = [seed EXCEPT !.pc = "failed"]
    /\ UNCHANGED <<stations, products, accounts, journalEntries, journalLines,
                   tanks, customers, suppliers>>

\* the statement at pc runs, inserting what it inserts, or throws
SeedStatement(pc, next, inserted) ==
    /\ seed.pc = pc
    /\ \/ seed' = [seed EXCEPT !.pc = next] /\ inserted
       \/ SeedFails
    /\ UNCHANGED beyondSeed

SeedInsertStation ==
    SeedStatement("station", "petrol",
        /\ stations' = stations \cup {SeedStation(seed.run)}
        /\ UNCHANGED <<products, accounts, journalEntries, journalLines,
                       tanks, customers, suppliers>>)

SeedInsertPetrol ==
    SeedStatement("petrol", "diesel",
        /\ products' = products \cup {SeedProduct("p1", seed.run)}
        /\ UNCHANGED <<stations, accounts, journalEntries, journalLines,
                       tanks, customers, suppliers>>)

SeedInsertDiesel ==
    SeedStatement("diesel", "tanks",
        /\ products' = products \cup {SeedProduct("p2", seed.run)}
        /\ UNCHANGED <<stations, accounts, journalEntries, journalLines,
                       tanks, customers, suppliers>>)

SeedInsertTanks ==
    SeedStatement("tanks", "customers",
        /\ tanks' = TanksOfRun(seed.run) @@ tanks
        /\ UNCHANGED <<stations, products, accounts, journalEntries, journalLines,
                       customers, suppliers>>)

SeedInsertCustomers ==
    SeedStatement("customers", "suppliers",
        /\ customers' = CustomersOfRun(seed.run) @@ customers
        /\ UNCHANGED <<stations, products, accounts, journalEntries, journalLines,
                       tanks, suppliers>>)

SeedInsertSuppliers ==
    SeedStatement("suppliers", "cashAccount",
        /\ suppliers' = SuppliersOfRun(seed.run) @@ suppliers
        /\ UNCHANGED <<stations, products, accounts, journalEntries, journalLines,
                       tanks, customers>>)

SeedInsertCashAccount ==
    SeedStatement("cashAccount", "salesAccount",
        /\ accounts' = accounts \cup {SeedAccount("a1", seed.run, "debit")}
        /\ UNCHANGED <<stations, products, journalEntries, journalLines,
                       tanks, customers, suppliers>>)

SeedInsertSalesAccount ==
    SeedStatement("salesAccount", "entry",
        /\ accounts' = accounts \cup {SeedAccount("a2", seed.run, "credit")}
        /\ UNCHANGED <<stations, products, journalEntries, journalLines,
                       tanks, customers, suppliers>>)

SeedInsertEntry ==
    SeedStatement("entry", "lines",
        /\ journalEntries' = journalEntries \cup {SeedEntry(seed.run, now)}
        /\ UNCHANGED <<stations, products, accounts, journalLines,
                       tanks, customers, suppliers>>)

\* one insert of both lines
SeedInsertLines ==
    SeedStatement("lines", "done",
        /\ journalLines' = journalLines \cup SeedLines(seed.run)
        /\ UNCHANGED <<stations, products, accounts, journalEntries,
                       tanks, customers, suppliers>>)

\* the script is started again
SeedAgain ==
    /\ seed.pc \in {"done", "failed"}
    /\ seed.run < MaxRuns
    /\ seed' = [pc |-> "station", run |-> seed.run + 1]
    /\ UNCHANGED <<beyondSeed, stations, products, accounts, journalEntries, journalLines,
                   tanks, customers, suppliers>>

\* a day passes while the script runs
SeedTick ==
    /\ now < MaxDay
    /\ now' = now + 1
    /\ UNCHANGED <<tables, nextId, tx, parties, dash, creditSales, page, stock, books,
                   browser>>

InitSeed ==
    /\ salesTransactions = {}
    /\ salesTransactionItems = {}
    /\ purchaseOrders = {}
    /\ purchaseOrderItems = {}
    /\ nextId = 1
    /\ tx = Idle
    /\ now = 0
    /\ dash = DashIdle
    /\ creditSales = NoCreditSales
    /\ PageMounted
    /\ Unseeded
    /\ BrowserMounted

NextSeed ==
    \/ SeedInsertStation
    \/ SeedInsertPetrol
    \/ SeedInsertDiesel
    \/ SeedInsertTanks
    \/ SeedInsertCustomers
    \/ SeedInsertSuppliers
    \/ SeedInsertCashAccount
    \/ SeedInsertSalesAccount
    \/ SeedInsertEntry
    \/ SeedInsertLines
    \/ SeedAgain
    \/ SeedTick

SpecSeed == InitSeed /\ [][NextSeed]_vars

Init ==
    /\ salesTransactions = {}
    /\ salesTransactionItems = {}
    /\ purchaseOrders = {}
    /\ purchaseOrderItems = {}
    /\ nextId = 1
    /\ tx = Idle
    /\ customers = SeedCustomers
    /\ suppliers = SeedSuppliers
    /\ now = 0
    /\ dash = DashIdle
    /\ creditSales = NoCreditSales
    /\ PageMounted
    /\ StockSeeded
    /\ BooksSeeded
    /\ BrowserMounted

Next ==
    \/ \E h \in SalesInputs, items \in ItemLists \cup {NotArray} :
          CreateSalesTransaction(h, items)
    \/ InsertSalesTransactionItem
    \/ \E h \in OrderInputs, items \in ItemLists \cup {NotArray} :
          CreatePurchaseOrder(h, items)
    \/ InsertPurchaseOrderItem
    \/ \E id \in Ids, s \in Stations, r \in Roles : DeleteSalesTransactionSecure(id, s, r)
    \/ DeleteSalesTransactionItems
    \/ DeleteSalesTransactionHeader
    \/ \E id \in Ids, s \in Stations, r \in Roles : DeletePurchaseOrderSecure(id, s, r)
    \/ DeletePurchaseOrderItems
    \/ DeletePurchaseOrderHeader
    \/ TransactionCommit

Spec == Init /\ [][Next]_vars

----------------------------------------------------------------------------
(* The dashboard over the stores the gateway can build: up to MaxId sales of one
   item each, dated on any day, with or without the orders below *)

Days == 0..MaxDay

\* the sale with key id: of station s, dated d, of amount id
DashSale(id, s, d) ==
    [id |-> id, stationId |-> s, customerId |-> Null, userId |-> "u1",
     paymentMethod |-> "cash", totalAmount |-> id, transactionDate |-> d]

\* per key, no sale or one sale
DashStores ==
    {UNION {f[id] : id \in Ids} :
        f \in [Ids -> {{}} \cup {{DashSale(id, s, d)} : id \in Ids, s \in Stations, d \in Days}]}

DashOrders ==
    {[id |-> 1, stationId |-> "s1", supplierId |-> "sup1", orderNumber |-> 1,
      status |-> "pending", totalAmount |-> 1, orderDate |-> 0],
     [id |-> 2, stationId |-> "s2", supplierId |-> "sup1", orderNumber |-> 2,
      status |-> "delivered", totalAmount |-> 2, orderDate |-> 0]}

InitDash ==
    /\ salesTransactions \in
          {S \in DashStores : \A r1, r2 \in S : r1.id = r2.id => r1 = r2}
    /\ salesTransactionItems =
          {SalesItemRow(Item(1, t.totalAmount, t.id), t.id, 1) : t \in salesTransactions}
    /\ purchaseOrders \in {{}, DashOrders}
    /\ purchaseOrderItems =
          {OrderItemRow(Item(1, o.totalAmount, o.id), o.id, 1) : o \in purchaseOrders}
    /\ nextId = MaxId + 1
    /\ tx = Idle
    /\ customers = SeedCustomers
    /\ suppliers = SeedSuppliers
    /\ now \in Days
    /\ dash = DashIdle
    /\ creditSales = NoCreditSales
    /\ PageMounted
    /\ StockSeeded
    /\ BooksSeeded
    /\ BrowserMounted

NextDash ==
    \/ \E s \in Stations : GetDashboardStats(s)
    \/ DashTodaysSales
    \/ DashMonthlySales
    \/ DashOutstanding
    \/ DashCustomerCount
    \/ DashSupplierCount
    \/ DashPayables
    \/ DashRecentPOs
    \/ DashProductSales
    \/ DashWeeklySales
    \/ Tick

SpecDash == InitDash /\ [][NextDash]_vars

----------------------------------------------------------------------------
(* The dashboard of station s1 while its sales, one per key and dated on any day,
   are deleted *)

InitDashRace ==
    /\ \E d \in [Ids -> Days] : salesTransactions = {DashSale(id, "s1", d[id]) : id \in Ids}
    /\ salesTransactionItems =
          {SalesItemRow(Item(1, t.totalAmount, t.id), t.id, 1) : t \in salesTransactions}
    /\ purchaseOrders = {}
    /\ purchaseOrderItems = {}
    /\ nextId = MaxId + 1
    /\ tx = Idle
    /\ customers = SeedCustomers
    /\ suppliers = SeedSuppliers
    /\ now \in Days
    /\ dash = DashIdle
    /\ creditSales = NoCreditSales
    /\ PageMounted
    /\ StockSeeded
    /\ BooksSeeded
    /\ BrowserMounted

NextDashRace ==
    \/ NextDash
    \/ \E id \in Ids, s \in Stations, r \in Roles : DeleteSalesTransactionSecure(id, s, r)
    \/ DeleteSalesTransactionItems
    \/ DeleteSalesTransactionHeader
    \/ TransactionCommit

SpecDashRace == InitDashRace /\ [][NextDashRace]_vars

----------------------------------------------------------------------------
(* The party ledger under concurrent credit sales *)

NextLedger ==
    \/ \E r \in Requests, c \in DOMAIN SeedCustomers, a \in {1, 2} : CreditSale(r, c, a)
    \/ \E r \in Requests : GetCustomer(r)
    \/ \E r \in Requests : UpdateCustomerBalance(r)

SpecLedger == Init /\ [][NextLedger]_vars

----------------------------------------------------------------------------
(* The PurchaseOrders page of a user of station s1, over a store that holds the
   orders 1 .. MaxId - 1 already *)

FormOrder(id) ==
    [id |-> id, stationId |-> UserStation, supplierId |-> "sup1", orderNumber |-> id,
     status |-> "approved", totalAmount |-> 6, orderDate |-> 0]

InitForm ==
    /\ salesTransactions = {}
    /\ salesTransactionItems = {}
    /\ purchaseOrders = {FormOrder(id) : id \in 1..(MaxId - 1)}
    /\ purchaseOrderItems = {OrderItemRow(Item(2, 3, 0), id, 1) : id \in 1..(MaxId - 1)}
    /\ nextId = MaxId
    /\ tx = Idle
    /\ customers = SeedCustomers
    /\ suppliers = SeedSuppliers
    /\ now = 0
    /\ dash = DashIdle
    /\ creditSales = NoCreditSales
    /\ PageMounted
    /\ StockSeeded
    /\ BooksSeeded
    /\ BrowserMounted

StatusInputs == {"pending", "approved"}
FieldInputs ==
    {<<1, "productId", "p1">>, <<1, "quantity", "2">>, <<1, "unitPrice", "3">>,
     <<2, "quantity", "2">>, <<2, "unitPrice", "3">>}

NextForm ==
    \/ HandleNewPurchaseOrder
    \/ \E o \in purchaseOrders : HandleEditOrder(Listed(o))
    \/ \E o \in fetches : EditOrderLoaded(o)
    \/ CloseDialog
    \/ \E v \in StatusInputs : SelectStatus(v)
    \/ SelectSupplier("sup1")
    \/ AddOrderItem
    \/ \E i \in DOMAIN orderItems : RemoveOrderItem(i)
    \/ \E f \in FieldInputs : UpdateOrderItem(f[1], f[2], f[3])
    \/ OnSubmit
    \/ PostPurchaseOrder
    \/ InsertPurchaseOrderItem
    \/ TransactionCommit
    \/ CreateMutationSettled
    \/ PutPurchaseOrder
    \/ UpdateMutationSettled

SpecForm == InitForm /\ [][NextForm]_vars

----------------------------------------------------------------------------
(* Orders created through the form one after the other, over an empty store, while
   the browser's clock runs; a request takes a millisecond to reach the server *)

\* the time between two submits: a little under 10^8 ms, 27 h 46 min 40 s
ClockInputs == {Slice8 - 1, Slice8}

NumberFieldInputs ==
    {<<1, "productId", "p1">>, <<1, "quantity", "2">>, <<1, "unitPrice", "3">>}

NextNumber ==
    \/ HandleNewPurchaseOrder
    \/ CloseDialog
    \/ SelectSupplier("sup1")
    \/ \E f \in NumberFieldInputs : UpdateOrderItem(f[1], f[2], f[3])
    \/ OnSubmit
    \/ PostPurchaseOrderTaking(1)
    \/ InsertPurchaseOrderItem
    \/ TransactionCommit
    \/ CreateMutationSettled
    \/ \E d \in ClockInputs : ClockAdvances(d)

SpecNumber == Init /\ [][NextNumber]_vars

----------------------------------------------------------------------------
(* The edit flow of the PurchaseOrders page, over orders in any status *)

EditOrder(id, status) ==
    [id |-> id, stationId |-> UserStation, supplierId |-> "sup1", orderNumber |-> id,
     status |-> status, totalAmount |-> 6, orderDate |-> 0]

InitEdit ==
    /\ salesTransactions = {}
    /\ salesTransactionItems = {}
    /\ \E st \in [1..(MaxId - 1) -> Statuses] :
          purchaseOrders = {EditOrder(id, st[id]) : id \in 1..(MaxId - 1)}
    /\ purchaseOrderItems = {OrderItemRow(Item(2, 3, 0), id, 1) : id \in 1..(MaxId - 1)}
    /\ nextId = MaxId
    /\ tx = Idle
    /\ customers = SeedCustomers
    /\ suppliers = SeedSuppliers
    /\ now = 0
    /\ dash = DashIdle
    /\ creditSales = NoCreditSales
    /\ PageMounted
    /\ StockSeeded
    /\ BooksSeeded
    /\ BrowserMounted

NextEdit ==
    \/ \E o \in purchaseOrders : HandleEditOrder(Listed(o))
    \/ \E o \in fetches : EditOrderLoaded(o)
    \/ \E v \in Statuses : SelectStatus(v)
    \/ CloseDialog
    \/ OnSubmit
    \/ PutPurchaseOrder
    \/ UpdateMutationSettled

SpecEdit == InitEdit /\ [][NextEdit]_vars

----------------------------------------------------------------------------
(* Sales of fuel from the seeded tanks, on credit or for cash, and nothing else *)

SaleItem(productId, quantity) == [Item(quantity, 1, 0) EXCEPT !.productId = productId]

SaleItemLists ==
    {Arr(q) : q \in SeqsUpTo({SaleItem("p1", 1), SaleItem("p2", 2)}, MaxItems)}

CreditInputs ==
    [stationId : {"s1"}, customerId : {Null, "c1"}, userId : {"u1"},
     paymentMethod : {"cash", "credit"}, totalAmount : {1, 2}, transactionDate : {0}]

NextSale ==
    \/ \E h \in CreditInputs, items \in SaleItemLists : CreateSalesTransaction(h, items)
    \/ InsertSalesTransactionItem
    \/ TransactionCommit

SpecSale == Init /\ [][NextSale]_vars

----------------------------------------------------------------------------
(* Deletes, tank adjustments and stock movements over a store that holds a credit
   sale of one item and a delivered purchase order of one item *)

StockSale ==
    [id |-> 1, stationId |-> "s1", customerId |-> "c1", userId |-> "u1",
     paymentMethod |-> "credit", totalAmount |-> 1, transactionDate |-> 0]

StockOrder ==
    [id |-> 2, stationId |-> "s1", supplierId |-> "sup1", orderNumber |-> 2,
     status |-> "delivered", totalAmount |-> 2, orderDate |-> 0]

InitStock ==
    /\ salesTransactions = {StockSale}
    /\ salesTransactionItems = {SalesItemRow(SaleItem("p1", 1), StockSale.id, 1)}
    /\ purchaseOrders = {StockOrder}
    /\ purchaseOrderItems = {OrderItemRow(SaleItem("p2", 2), StockOrder.id, 1)}
    /\ nextId = MaxId + 1
    /\ tx = Idle
    /\ customers = SeedCustomers
    /\ suppliers = SeedSuppliers
    /\ now = 0
    /\ dash = DashIdle
    /\ creditSales = NoCreditSales
    /\ PageMounted
    /\ StockSeeded
    /\ BooksSeeded
    /\ BrowserMounted

TankIds == {"t1", "t2", "t9"}
StockInputs == {-1, 2, 7}
MovementInputs == [tankId : {"t1"}, movementType : {"in", "out"}, quantity : {1}]

NextStock ==
    \/ \E id \in Ids, st \in Stations, r \in Roles : DeleteSalesTransactionSecure(id, st, r)
    \/ DeleteSalesTransactionItems
    \/ DeleteSalesTransactionHeader
    \/ \E id \in Ids, st \in Stations, r \in Roles : DeletePurchaseOrderSecure(id, st, r)
    \/ DeletePurchaseOrderItems
    \/ DeletePurchaseOrderHeader
    \/ TransactionCommit
    \/ \E t \in TankIds, q \in StockInputs : UpdateTankStock(t, q)
    \/ \E mv \in MovementInputs : CreateStockMovement(mv)

SpecStock == InitStock /\ [][NextStock]_vars

----------------------------------------------------------------------------
(* AuthGuard under navigation and changes of the session *)

\* "attendant" is a role outside the table
UserRoles == {"admin", "manager", "cashier", "attendant"}

Users == [role : UserRoles, isActive : BOOLEAN]

AuthStates ==
    {AuthLoading} \cup [isLoading : {FALSE}, isAuthenticated : BOOLEAN,
                         user : {{}} \cup {{u} : u \in Users}]

Locations ==
    {Root, Route("profile"), Route("login"), Route("signup"), Route("approval-pending"),
     Route("pos"), <<"/", "pos", "/1">>, <<"/", "pos", "tal">>, Route("tanks"),
     Route("admin")}

InitGuard ==
    /\ salesTransactions = {}
    /\ salesTransactionItems = {}
    /\ purchaseOrders = {}
    /\ purchaseOrderItems = {}
    /\ nextId = 1
    /\ tx = Idle
    /\ customers = SeedCustomers
    /\ suppliers = SeedSuppliers
    /\ now = 0
    /\ dash = DashIdle
    /\ creditSales = NoCreditSales
    /\ PageMounted
    /\ StockSeeded
    /\ BooksSeeded
    /\ location \in Locations
    /\ auth = AuthLoading
    /\ guard = Unrendered
    /\ ImportMounted
    /\ AsideMounted

NextGuard ==
    \/ AuthGuardRender
    \/ AuthGuardEffect
    \/ \E path \in Locations : Navigate(path)
    \/ \E a \in AuthStates : AuthChanges(a)

SpecGuard == InitGuard /\ [][NextGuard]_vars

----------------------------------------------------------------------------
(* Imports of files of up to MaxRows rows that name the seeded diesel or a
   product the catalog does not have *)

RowInputs == {CsvRow("p2"), CsvRow("p9")}

FileInputs == UNION {[1..n -> RowInputs] : n \in 0..MaxRows}

NextImport ==
    \/ \E tab \in ImportTypes : SetActiveTab(tab)
    \/ \E file \in FileInputs : HandleFileChange(file)
    \/ HandleImport
    \/ BulkImportRow
    \/ BulkImportResponds
    \/ ImportSettled
    \/ ImportThrows

SpecImport == Init /\ [][NextImport]_vars

\* the server works through the file and answers, and the promise of fetch settles
SpecImportLive ==
    SpecImport
    /\ WF_vars(BulkImportRow) /\ WF_vars(BulkImportResponds)
    /\ WF_vars(ImportSettled \/ ImportThrows)

----------------------------------------------------------------------------
(* AuthGuard left to itself: any session, any starting location, and no event
   but the renders and effects React schedules, which it always runs *)

InitRedirect ==
    /\ salesTransactions = {}
    /\ salesTransactionItems = {}
    /\ purchaseOrders = {}
    /\ purchaseOrderItems = {}
    /\ nextId = 1
    /\ tx = Idle
    /\ customers = SeedCustomers
    /\ suppliers = SeedSuppliers
    /\ now = 0
    /\ dash = DashIdle
    /\ creditSales = NoCreditSales
    /\ PageMounted
    /\ StockSeeded
    /\ BooksSeeded
    /\ location \in Locations
    /\ auth \in AuthStates
    /\ guard = Unrendered
    /\ ImportMounted
    /\ AsideMounted

NextRedirect ==
    \/ AuthGuardRender
    \/ AuthGuardEffect

SpecRedirect ==
    InitRedirect /\ [][NextRedirect]_vars
    /\ WF_vars(AuthGuardRender) /\ WF_vars(AuthGuardEffect)

----------------------------------------------------------------------------
(* Reads of sales made for a customer or for a walk-in, of one or two items, and
   of a key no sale has *)

ReadSale(id, customerId) == [DashSale(id, "s1", 0) EXCEPT !.customerId = customerId]

InitRead ==
    /\ \E c \in [Ids -> {Null, "c1"}] :
          salesTransactions = {ReadSale(id, c[id]) : id \in Ids}
    /\ \E n \in [Ids -> 0..MaxItems] :
          salesTransactionItems =
             UNION {{SalesItemRow(Item(1, 1, id), id, k) : k \in 1..n[id]} : id \in Ids}
    /\ purchaseOrders = {}
    /\ purchaseOrderItems = {}
    /\ nextId = MaxId + 1
    /\ tx = Idle
    /\ customers = SeedCustomers
    /\ suppliers = SeedSuppliers
    /\ now = 0
    /\ dash = DashIdle
    /\ creditSales = NoCreditSales
    /\ PageMounted
    /\ StockSeeded
    /\ BooksSeeded
    /\ BrowserMounted

NextRead ==
    \/ \E id \in 1..(MaxId + 1) : GetSalesTransactionWithItems(id)
    \/ LookupItems

SpecRead == InitRead /\ [][NextRead]_vars

----------------------------------------------------------------------------
(* SalesHistory in up to MaxTabs tabs, over what the point of sale can have left
   in localStorage: a list of drafts, a legacy draft, both or neither *)

PosDraft(id) == [id |-> id, timestamp |-> id]

StoredLists == {<<>>, <<PosDraft(7)>>, <<PosDraft(7), PosDraft(8)>>}

LegacyDrafts == {[timestamp |-> 0], [timestamp |-> 5]}

InitDrafts ==
    /\ salesTransactions = {}
    /\ salesTransactionItems = {}
    /\ purchaseOrders = {}
    /\ purchaseOrderItems = {}
    /\ nextId = 1
    /\ tx = Idle
    /\ customers = SeedCustomers
    /\ suppliers = SeedSuppliers
    /\ now = 0
    /\ dash = DashIdle
    /\ creditSales = NoCreditSales
    /\ PageMounted
    /\ StockSeeded
    /\ BooksSeeded
    /\ location = Root
    /\ auth = AuthLoading
    /\ guard = Unrendered
    /\ ImportMounted
    /\ users = SeedUsers
    /\ lookup = LookupIdle
    /\ localStorage \in [allPosDrafts : {{}} \cup {{list} : list \in StoredLists},
                         posDraft : {{}} \cup {{d} : d \in LegacyDrafts}]
    /\ salesHistory = [tab \in Tabs |-> Unmounted]

NextDrafts ==
    \/ \E tab \in Tabs : LoadDrafts(tab)
    \/ \E tab \in Tabs : LeaveSalesHistory(tab)
    \/ \E tab \in Tabs, id \in {0, 5, 7, 8} : HandleDeleteDraft(tab, id)
    \/ \E tab \in Tabs : CloseDraftDelete(tab)
    \/ \E tab \in Tabs : ConfirmDeleteDraft(tab)

SpecDrafts == InitDrafts /\ [][NextDrafts]_vars

----------------------------------------------------------------------------
(* Properties of the gateway *)

Creates == {"createSalesTransaction", "createPurchaseOrder"}
Deletes == {"deleteSalesTransactionSecure", "deletePurchaseOrderSecure"}

\* no committed header or item row belongs to transaction or order id
NoRowsOf(id) ==
    /\ \A r \in salesTransactions \cup purchaseOrders : r.id # id
    /\ \A r \in salesTransactionItems : r.transactionId # id
    /\ \A r \in purchaseOrderItems : r.orderId # id

\* C1: a createSalesTransaction or createPurchaseOrder that fails, also after the
\* header and some items were inserted, rejects with the error and leaves neither
\* the header nor any of its items in the store.
C1_CreateIsAtomic ==
    (tx.op \in Creates /\ tx.pc = "rejected") => (tx.error # "none" /\ NoRowsOf(tx.id))

\* an item insert failed after the header and at least one item had been inserted
C1_Witness ==
    /\ tx.op = "createSalesTransaction"
    /\ tx.pc = "rejected"
    /\ tx.k >= 1
    /\ tx.k < Len(tx.items.elems)

\* C2: a delete that resolves leaves no header with the id and no item row that
\* refers to it; a delete that fails at the header, after the items were deleted,
\* leaves every table as it was.
C2_DeleteLeavesNoOrphans ==
    [][/\ (tx.op \in Deletes /\ tx.pc = "commit" /\ tx'.pc = "resolved")
            => (\A r \in salesTransactions' : tx.op = "deleteSalesTransactionSecure" => r.id # tx.id)
               /\ (\A r \in salesTransactionItems' :
                      tx.op = "deleteSalesTransactionSecure" => r.transactionId # tx.id)
               /\ (\A r \in purchaseOrders' : tx.op = "deletePurchaseOrderSecure" => r.id # tx.id)
               /\ (\A r \in purchaseOrderItems' :
                      tx.op = "deletePurchaseOrderSecure" => r.orderId # tx.id)
       /\ (tx.op \in Deletes /\ tx.pc = "deleteHeader" /\ tx'.pc = "rejected")
            => UNCHANGED tables]_vars

\* a sale that had items was deleted
C2_Witness ==
    /\ tx.op = "deleteSalesTransactionSecure"
    /\ tx.pc = "resolved"
    /\ tx.k >= 1
    /\ \A r \in salesTransactionItems : r.transactionId # tx.id

\* the table a delete call works on
TargetOf(op) ==
    IF op = "deleteSalesTransactionSecure" THEN salesTransactions ELSE purchaseOrders

\* C3: a delete by a caller who is not admin, of an existing row of another
\* station, rejects with the authorization error and changes no row.
C3_CrossStationDeleteRefused ==
    [][(/\ Free
        /\ tx' # tx
        /\ tx'.op \in Deletes
        /\ tx'.role # "admin"
        /\ \E r \in TargetOf(tx'.op) : r.id = tx'.id /\ r.stationId # tx'.stationId)
       => /\ tx'.pc = "rejected"
          /\ tx'.error \in {"Unauthorized to delete this transaction",
                            "Unauthorized to delete this order"}
          /\ UNCHANGED tables]_vars

C3_Witness ==
    /\ tx.op = "deletePurchaseOrderSecure"
    /\ tx.pc = "rejected"
    /\ tx.role = "manager"
    /\ \E r \in purchaseOrders : r.id = tx.id /\ r.stationId # tx.stationId

\* C4: a createSalesTransaction with N >= 1 items that resolves adds exactly one
\* header row and exactly N item rows, every one with the new header's id as its
\* transactionId, and changes no row that was there before.
C4_CreateAddsHeaderAndItems ==
    [][(/\ tx.op = "createSalesTransaction"
        /\ tx.pc = "commit"
        /\ tx'.pc = "resolved"
        /\ Len(tx.items.elems) >= 1)
       => LET newHeaders == salesTransactions' \ salesTransactions
              newItems == salesTransactionItems' \ salesTransactionItems
          IN  /\ Cardinality(newHeaders) = 1
              /\ \A h \in newHeaders : h.id = tx.id
              /\ Cardinality(newItems) = Len(tx.items.elems)
              /\ \A i \in newItems : i.transactionId = tx.id
              /\ salesTransactions \subseteq salesTransactions'
              /\ salesTransactionItems \subseteq salesTransactionItems'
              /\ UNCHANGED <<purchaseOrders, purchaseOrderItems>>]_vars

\* a second sale, of two items, was created beside an earlier sale and its item
C4_Witness ==
    /\ tx.op = "createSalesTransaction"
    /\ tx.pc = "resolved"
    /\ Len(tx.items.elems) >= 2
    /\ Cardinality({i \in salesTransactionItems : i.transactionId = tx.id}) = Len(tx.items.elems)
    /\ \E h \in salesTransactions : h.id # tx.id
    /\ \E i \in salesTransactionItems : i.transactionId # tx.id

----------------------------------------------------------------------------
(* Properties of the ledger and of the dashboard *)

\* C5: after a createSalesTransaction of N >= 1 items, each with totalPrice =
\* quantity x unitPrice, the persisted header's totalAmount is the sum of the
\* totalPrice of its persisted items.
C5_HeaderTotalIsItemSum ==
    (/\ tx.op = "createSalesTransaction"
     /\ tx.pc = "resolved"
     /\ IsArray(tx.items)
     /\ Len(tx.items.elems) >= 1
     /\ \A i \in Range(tx.items.elems) : i.totalPrice = i.quantity * i.unitPrice)
    => \A h \in salesTransactions :
          h.id = tx.id =>
             h.totalAmount =
                SumField({i \in salesTransactionItems : i.transactionId = h.id}, "totalPrice")

AllCreditSalesDone == \A r \in Requests : creditSales[r].pc = "done"

\* C6: when the credit sales have all finished, every customer's balance is the
\* balance it started with plus the amounts of all the sales made to it.
C6_NoLostBalanceUpdate ==
    AllCreditSalesDone
    => \A c \in DOMAIN customers :
          customers[c] =
             SeedCustomers[c]
             + SumFcn([r \in Requests |-> creditSales[r].amount],
                      {r \in Requests : creditSales[r].customerId = c})

\* C7: the total getDashboardStats returns as today's sales is the sum of the
\* station's sales dated on the day of the call, and of no other day.
C7_TodaysSalesIsTodayOnly ==
    dash.pc = "returned"
    => dash.todaysSales.totalAmount =
          SumField({t \in salesTransactions :
                      t.stationId = dash.stationId /\ t.transactionDate = dash.today},
                   "totalAmount")

\* C8: a createSalesTransaction or createPurchaseOrder of no items (for sales also
\* of an items argument that is no array) is rejected and persists no header.
C8_EmptyCreateRejected ==
    (/\ tx.op \in Creates
     /\ tx.pc \in {"resolved", "rejected"}
     /\ \/ IsArray(tx.items) /\ Len(tx.items.elems) = 0
        \/ tx.op = "createSalesTransaction" /\ ~IsArray(tx.items))
    => (tx.pc = "rejected" /\ NoRowsOf(tx.id))

\* C9: a delete of an id that no row has ends in an error, whatever the caller's
\* role, and changes no row.
C9_DeleteOfAbsentIdNotFound ==
    [][(/\ tx.op \in Deletes
        /\ tx.pc \notin {"resolved", "rejected"}
        /\ tx'.pc \in {"resolved", "rejected"}
        /\ \A r \in TargetOf(tx.op) : r.id # tx.id)
       => (tx'.pc = "rejected" /\ UNCHANGED tables)]_vars


\* C10: every purchase order starts in status 'pending': right after a creation
\* that the form submitted in create mode has resolved, the persisted order's
\* status is 'pending'.
C10_CreatedOrderStartsPending ==
    (/\ mutation.kind = "create"
     /\ mutation.pc = "sent"
     /\ tx.op = "createPurchaseOrder"
     /\ tx.pc = "resolved")
    => \A o \in purchaseOrders : o.id = tx.id => o.status = "pending"

----------------------------------------------------------------------------
(* Properties of the edit flow, of the side effects of a sale and of stock *)

\* C11: no purchase-order status transition is validated: whatever the status of
\* the order being edited, every one of the four statuses can be chosen in the
\* dialog, the submitted update carries the chosen status, and an update that
\* succeeds writes it to the order.
C11_EditWritesAnyStatus ==
    [][/\ (open /\ selectedOrder # {})
            => \A s \in Statuses : ENABLED SelectStatus(s)
       /\ (mutation.pc = "idle" /\ mutation'.pc = "pending" /\ mutation'.kind = "update")
            => mutation'.data.status = formValues.status
       /\ (mutation.kind = "update" /\ mutation.pc = "pending" /\ mutation'.pc = "success")
            => \A o \in purchaseOrders' :
                  o.id \in mutation.data.id => o.status = mutation.data.status]_vars

\* an order listed as delivered was edited and is pending again
C11_Witness ==
    /\ mutation.kind = "update"
    /\ mutation.pc = "success"
    /\ \E o \in selectedOrder :
          /\ o.status = "delivered"
          /\ \E p \in purchaseOrders : p.id = o.id /\ p.status = "pending"

\* the quantity of the tank's product sold at the tank's station, over the
\* persisted sale items
SoldFrom(tank) ==
    SumField({i \in salesTransactionItems :
                 /\ i.productId = tank.productId
                 /\ \E t \in salesTransactions :
                       t.id = i.transactionId /\ t.stationId = tank.stationId},
             "quantity")

\* C12: after a createSalesTransaction has resolved, every customer's
\* outstandingAmount is what it was before the sales plus the totalAmount of the
\* persisted credit sales made to that customer: a credit sale raises its
\* customer's balance by exactly its total and no other balance changes.
C12_CreditSaleRaisesBalance ==
    (tx.op = "createSalesTransaction" /\ tx.pc = "resolved")
    => \A c \in DOMAIN customers :
          customers[c] =
             SeedCustomers[c]
             + SumField({t \in salesTransactions :
                           t.paymentMethod = "credit" /\ t.customerId = c},
                        "totalAmount")

\* C13: after a createSalesTransaction has resolved, the currentStock of every
\* tank is what it was before the sales less the quantities sold of the tank's
\* product at the tank's station.
C13_SaleLowersTankStock ==
    (tx.op = "createSalesTransaction" /\ tx.pc = "resolved")
    => \A t \in DOMAIN tanks :
          tanks[t].currentStock = SeedTanks[t].currentStock - SoldFrom(tanks[t])

\* C14: deleting performs no compensating reversal: no step of
\* deleteSalesTransactionSecure or deletePurchaseOrderSecure, of a delete that
\* succeeds or of one that fails, changes a tank's currentStock, a customer's or
\* supplier's outstandingAmount or the stock-movement log.
C14_DeleteReversesNothing ==
    [][(tx' # tx /\ tx'.op \in Deletes)
       => UNCHANGED <<tanks, customers, suppliers, stockMovements>>]_vars

\* the credit sale of one item was deleted
C14_Witness ==
    /\ tx.op = "deleteSalesTransactionSecure"
    /\ tx.pc = "resolved"
    /\ tx.k >= 1
    /\ StockSale \notin salesTransactions

\* C15: from every state, updateTankStock(t, q) of an existing tank t sets its
\* currentStock to exactly q, also for q < 0 and q > capacity, and leaves the
\* other tanks, the tank's other fields and the stock-movement log as they were.
C15_TankStockSetExactly ==
    \A t \in DOMAIN tanks, q \in StockInputs :
       ENABLED (/\ UpdateTankStock(t, q)
                /\ tanks' = [tanks EXCEPT ![t].currentStock = q]
                /\ stockMovements' = stockMovements)

\* one tank is below zero, the other above its capacity, and the log has an entry
C15_Witness ==
    /\ \E t \in DOMAIN tanks : tanks[t].currentStock < 0
    /\ \E t \in DOMAIN tanks : tanks[t].currentStock > tanks[t].capacity
    /\ Len(stockMovements) >= 1

\* C16: the per-station figures getDashboardStats(s) returns are the figures the
\* same queries give on the store without the sales, sale items and purchase
\* orders of other stations: rows of other stations do not show in todaysSales,
\* monthlySales, payables, recentPOs, productSales or weeklySales.
C16_StatsDependOnStationOnly ==
    dash.pc = "returned"
    => LET ownSales == {t \in salesTransactions : t.stationId = dash.stationId}
           ownItems == {i \in salesTransactionItems :
                           \E t \in ownSales : t.id = i.transactionId}
           ownOrders == {o \in purchaseOrders : o.stationId = dash.stationId}
       IN  /\ dash.todaysSales =
                 SalesAggregate({t \in ownSales : t.transactionDate >= dash.today})
           /\ dash.monthlySales =
                 SalesAggregate({t \in ownSales : t.transactionDate >= dash.startOfMonth})
           /\ dash.payables = PayablesOver(ownOrders)
           /\ dash.recentPOs \in RecentOrders(ownOrders)
           /\ dash.productSales = ProductSalesOver(ownItems, ownSales, dash.today)
           /\ dash.weeklySales = WeeklySalesOver(ownSales, dash.today)

\* C17: in every state while or after the seed script runs, also when a later
\* insert failed, every persisted journal entry owns at least two journal
\* lines, and the sum of its lines' debit equals the sum of its lines' credit
\* and the entry's totalDebit and totalCredit.
C17_JournalEntriesBalanced ==
    \A e \in journalEntries :
       LET lines == {l \in journalLines : l.entryId = e.id}
       IN  /\ Cardinality(lines) >= 2
           /\ SumField(lines, "debit") = SumField(lines, "credit")
           /\ SumField(lines, "debit") = e.totalDebit
           /\ SumField(lines, "credit") = e.totalCredit

----------------------------------------------------------------------------
(* Properties of AuthGuard *)

\* C18: when the guard's effect runs for an authenticated user at location L, L is
\* permitted exactly when the role's list (empty for a role outside the table)
\* holds "*", holds L, or holds an entry other than "/" that L starts with; at a
\* non-permitted L other than "/", "/profile", "/login" and "/signup" the effect
\* navigates to "/", and at a permitted L it does not navigate.
C18_AccessDecisionIsRoleTable ==
    [][(guard.effect /\ ~guard'.effect /\ EffectApplies(guard.auth)) =>
        LET L == guard.location
            role == TheUser(guard.auth).role
            list == IF role \in {"admin", "manager", "cashier"}
                    THEN RoleAccess[role] ELSE {}
            permitted ==
                \/ <<"*">> \in list
                \/ L \in list
                \/ \E e \in list : /\ e # <<"/">>
                                   /\ Len(e) <= Len(L)
                                   /\ \A i \in 1..Len(e) : L[i] = e[i]
        IN /\ location = L
           /\ (~permitted /\ L \notin {<<"/">>, <<"/", "profile">>, <<"/", "login">>,
                                       <<"/", "signup">>})
                => location' = <<"/">> /\ location' # location
           /\ permitted => location' = location]_vars

\* the effect has just sent a cashier away from a location outside the cashier's list
C18_Witness ==
    /\ guard.view # "none"
    /\ ~guard.effect
    /\ EffectApplies(guard.auth)
    /\ TheUser(guard.auth).role = "cashier"
    /\ guard.location = Route("tanks")
    /\ location = Root

\* C19: two distinct purchase orders created through the form carry different
\* orderNumber values.
C19_OrderNumbersUnique ==
    \A a, b \in purchaseOrders : a.id # b.id => a.orderNumber # b.orderNumber

----------------------------------------------------------------------------
(* Properties of the bulk import *)

----------------------------------------------------------------------------
(* Properties of the form's payload, of the dialog under late responses, and of
   reads *)

\* C23: the totalAmount and the subtotal a submit sends equal the sum of totalPrice
\* over the items it sends.
C23_TotalIsSumOfSentItems ==
    mutation.pc = "pending" =>
        LET sent == SumSeq([k \in DOMAIN mutation.data.items |->
                               mutation.data.items[k].totalPrice])
        IN  mutation.data.totalAmount = sent /\ mutation.data.subtotal = sent

\* C24: a detail response for an order fills the dialog only while that order is
\* the selected one, so a pending create or update was built from the items and
\* values of the order it names.
C24_ResponseFillsItsOwnOrder ==
    [][\A order \in fetches :
          (order \notin fetches' /\ <<orderItems, formValues, open>>' # <<orderItems, formValues, open>>)
              => selectedOrder = {order}]_vars

\* C25: for every id of an existing sale, getSalesTransactionWithItems(id) returns
\* that sale together with all of its item rows, walk-in sales (customerId null)
\* included; it returns undefined only when no sale has that id.
C25_ReadReturnsSaleWithItems ==
    lookup.pc = "returned" =>
        lookup.result =
            {[transaction |-> t,
              items |-> {i \in salesTransactionItems : i.transactionId = t.id}] :
             t \in {x \in salesTransactions : x.id = lookup.id}}

\* C29: a confirmed deletion leaves in localStorage exactly the drafts a load
\* showed before it, less the deleted one, so that a later load yields the drafts
\* not deleted; and deleting the last draft removes both keys.
C29_DeletedDraftStaysDeleted ==
    [][\A tab \in Tabs :
          (/\ salesHistory[tab].draftDeleteConfirmOpen
           /\ salesHistory[tab].draftToDelete # {}
           /\ salesHistory'[tab].mounted
           /\ salesHistory'[tab].draftToDelete = {})
          => /\ LoadedDrafts(localStorage', ms) =
                   WithoutDraft(LoadedDrafts(localStorage, ms),
                                CHOOSE d \in salesHistory[tab].draftToDelete : TRUE)
             /\ (salesHistory'[tab].draftSales = <<>> => localStorage' = NoStorage)]_vars

\* C26: in every result of getDashboardStats, the sales counted for today are at
\* most the sales counted for the month.
C26_TodayWithinMonth ==
    dash.pc = "returned" => dash.todaysSales.count <= dash.monthlySales.count

----------------------------------------------------------------------------
(* Properties of AuthGuard's renders and redirects *)

\* C27: no render of AuthGuard for an authenticated, active user includes the
\* children at a location the role's list does not permit and the guard redirects
\* from: the redirect comes before any such render.
C27_NoChildrenWhereNotPermitted ==
    (/\ guard.view \in {"children", "layout"}
     /\ EffectApplies(guard.auth)
     /\ TheUser(guard.auth).isActive
     /\ guard.location \notin Exempt)
    => IsAllowed(TheUser(guard.auth).role, guard.location)

\* C28: left to itself the guard changes the location at most once, from a location
\* other than "/" to "/", and then comes to rest: the location rendered is the
\* current one and no effect is due.
C28_RedirectTerminates ==
    /\ [][location' # location => (location # <<"/">> /\ location' = <<"/">>)]_vars
    /\ <>[](~guard.effect /\ guard.view # "none" /\ guard.location = location)

\* the effect has just sent a manager away from a location outside the manager's list
C28_Witness ==
    /\ ~guard.effect
    /\ EffectApplies(guard.auth)
    /\ TheUser(guard.auth).role = "manager"
    /\ guard.location = Route("admin")
    /\ location = Root

----------------------------------------------------------------------------
(* Properties of the import flag *)

\* C30: whenever importing is true it becomes false again, whether the request
\* succeeds, reports no success or throws; and while no file is selected no step
\* sets importing or sends a request.
C30_ImportingEnds ==
    /\ importing ~> ~importing
    /\ [][importFile = {} => (~importing' /\ upload' = upload)]_vars

\* an import whose request threw has ended
C30_Witness ==
    /\ upload.pc = "failed"
    /\ ~importing
    /\ importFile # {}

====
